---- MODULE Spec2Model ----
(***************************************************************************)
(* Ledger Scrolls chain-reading engine: the MUX codec, the lsview          *)
(* N2NConnection and the reference OuroborosClient (handshake,             *)
(* demultiplexer, per-protocol queues, keep-alive, BlockFetch range),      *)
(* the lsview chain scan and its front ends, the scroll functions         *)
(* (page order, decompression, classification) and the two block          *)
(* parsers applied to drawn inputs, lsview open_connection with its       *)
(* commands, the scan against a relay that follows ChainSync and           *)
(* BlockFetch, and the retry loops of the indexer clients.                 *)
(*                                                                         *)
(* Byte strings are kept symbolically: a byte string is a sequence of      *)
(* spans [src, lo, hi), the bytes lo..hi-1 of the source string src, with  *)
(* adjacent spans of one source merged.  Slicing and concatenation are     *)
(* computed on spans, so a payload of 12289 bytes costs one record.        *)
(***************************************************************************)
EXTENDS Integers, Sequences, FiniteSets, TLC

VARIABLES
    \* ---- MUX codec harness (pure functions applied to drawn inputs)
    cx_phase,       \* "input" | "encoded" | "decoded"
    cx_proto,       \* protocol id handed to the encoders
    cx_len,         \* length of the payload handed to the encoders
    cx_now,         \* value of the monotonic clock read by the reference encoder
    cx_ls,          \* frame built by lsview mux_encode
    cx_ref,         \* frame built by the reference mux_encode
    cx_segs,        \* frames built by mux_split_and_encode
    cx_send,        \* frames written by N2NConnection.send
    cx_dec,         \* decoded headers
    \* ---- lsview N2NConnection (one task, no demultiplexer)
    ls_pc,          \* "new" | "hs_wait" | "ready" | "failed" | "closed"
    ls_writer,      \* self.writer is not None
    ls_negotiated_version,  \* {} for None, else {version}
    ls_in,          \* frames the peer wrote that the client has not read yet
    ls_skew,        \* the header of Head(ls_in) was read, its payload was not
    ls_eof,         \* the peer closed the socket
    ls_out,         \* frames the client wrote, in order
    ls_read,        \* history: frames whose header the client read, in order
    ls_calls,       \* history: outcome of each open()/recv() call, in order
    \* ---- reference OuroborosClient (demultiplexer task + application task)
    r_conn,         \* "new" | "hs_wait" | "up" | "failed": where connect() is
    r_connected,    \* self._connected
    r_version,      \* self._negotiated_version: {} for None, else {version}
    r_writer,       \* "none" | "open" | "closed": self._writer
    r_wire,         \* frames the relay wrote that the client has not read yet
    r_eof,          \* the relay closed the socket
    r_sent,         \* frames the client wrote, in order
    r_demux,        \* "none" | "running" | "cancelled" | "done": self._demux_task
    r_bufs,         \* self._protocol_buffers: protocol id -> queued segments
    r_task,         \* the application's call in progress
    r_calls,        \* history: outcome of each finished application call
    r_reply,        \* history: the frame connect() read as the handshake reply
    r_routed,       \* history: segments the demultiplexer read, in order
    r_closed,       \* history: "" | "disconnect" | "eof" | "error": why the connection ended
    r_peer,         \* the relay's BlockFetch server state and what it has sent
    \* lsview cmd_reconstruct_cip25, from open_connection's return on
    sc_pc,          \* "off" | "start" | "intersect" | "stream" | "fetch1" | "fetch" | "end"
    sc_desc,        \* the catalog entry: its expected sha256, {} for none
    sc_open,        \* conn.writer is not None: the connection was not closed
    sc_sent,        \* frames the client sent, in order
    sc_yielded,     \* stream_headers: yielded
    sc_pages,       \* cmd_reconstruct_cip25: pages
    sc_manifest,    \* cmd_reconstruct_cip25: manifest, {} for None
    sc_fetch,       \* fetch_block_body: block_body (what it returned, once done), and
                    \* history: the first body and the MsgBlock count of the batch it reads
    sc_file,        \* the output file: {} when absent, else {its bytes}
    sc_result,      \* "running" | "ok" | the exception the command ended with
    sc_last,        \* history: where the last reply was read and what it was
    sc_noise,       \* how many replies other than roll-forward the stream has read
    sc_wait,        \* time waited in the current recv of stream_headers
    sc_idle,        \* time since stream_headers last read a roll-forward
    \* the write-after-verify part of the other front-ends
    fe_pc,          \* "off" | "start" | "end"
    fe_tool,        \* "utxo" (lsview reconstruct-utxo) | "koios" (read_scroll) | "viewer"
    fe_args,        \* the arguments and the descriptor of the run
    fe_data,        \* history: the bytes the run reconstructed, before and after gunzip
    fe_file,        \* the output file: {} when absent, else {its bytes}
    fe_out,         \* the bytes the run returned for display, {} for none
    fe_result,      \* "running" | "ok" | the error the run ended with
    fe_log,         \* the checksum lines printed
    \* ---- the scroll functions and the block parsers, applied to drawn inputs
    pf_pc,          \* "off" | "input" | "done"
    pf_fn,          \* the function applied
    pf_in,          \* its arguments
    pf_out,         \* what it returned or raised
    \* ---- lsview open_connection and cmd_tip, cmd_fetch_block, cmd_reconstruct_utxo
    oc_pc,          \* "off" | "connect" | "tip" | "fetch1" | "fetch" | "end"
    oc_args,        \* args: cmd, relay, port, topology (the file's endpoints), tx_ix, out
    oc_cands,       \* _relay_candidates(args): the endpoints not tried yet, in order
    oc_tried,       \* history: each endpoint tried, what its relay did, how open() ended
    oc_conn,        \* the connection open_connection returned: {} or {endpoint}
    oc_closed,      \* history: the endpoints whose connection was closed, in order
    oc_sent,        \* frames the command sent, in order
    oc_fetch,       \* fetch_block_body: block_body, and the history of its batch
    oc_replies,     \* history: the types of the BlockFetch replies read, in order
    oc_file,        \* the output file: {} when absent, else {its bytes}
    oc_exit,        \* how the process ended: status and message
    \* ---- the relay of the scan, when it follows ChainSync and BlockFetch
    pr_cs,          \* ChainSync as the relay sees it: "off" | "idle" | "intersect" |
                    \* "canawait" | "mustreply" | "done"
    pr_bf,          \* BlockFetch as the relay sees it: "idle" | "busy" | "streaming" |
                    \* "sent" (block written) | "done", and the slot asked for
    pr_wire,        \* frames the relay wrote that the client has not read yet
    pr_chain,       \* the relay's chain after the start point, as block numbers
    pr_ptr,         \* how many blocks of pr_chain the relay has announced
    pr_forks,       \* how many times the relay switched to another fork
    pr_viol,        \* history: what the client did against the protocols
    \* ---- the retry loops of the indexer clients
    rt_pc,          \* "off" | "call" | "sleep" | "end"
    rt_fn,          \* "with_retries" | "koios_post"
    rt_retries,     \* retries
    rt_i,           \* the loop variable (i, attempt)
    rt_last,        \* the exception of the last failed call, {} for None
    rt_log,         \* history: the calls and the sleeps, in order
    rt_result       \* {} while running, else what the function returned or raised

cxVars == <<cx_phase, cx_proto, cx_len, cx_now, cx_ls, cx_ref, cx_segs, cx_send, cx_dec>>

lsVars == <<ls_pc, ls_writer, ls_negotiated_version, ls_in, ls_skew, ls_eof, ls_out,
            ls_read, ls_calls>>

refVars == <<r_conn, r_connected, r_version, r_writer, r_wire, r_eof, r_sent, r_demux,
             r_bufs, r_task, r_calls, r_reply, r_routed, r_closed, r_peer>>

scVars == <<sc_pc, sc_desc, sc_open, sc_sent, sc_yielded, sc_pages, sc_manifest, sc_fetch,
            sc_file, sc_result, sc_last, sc_noise, sc_wait, sc_idle>>

feVars == <<fe_pc, fe_tool, fe_args, fe_data, fe_file, fe_out, fe_result, fe_log>>

pfVars == <<pf_pc, pf_fn, pf_in, pf_out>>

ocVars == <<oc_pc, oc_args, oc_cands, oc_tried, oc_conn, oc_closed, oc_sent, oc_fetch, oc_replies,
            oc_file, oc_exit>>

prVars == <<pr_cs, pr_bf, pr_wire, pr_chain, pr_ptr, pr_forks, pr_viol>>

rtVars == <<rt_pc, rt_fn, rt_retries, rt_i, rt_last, rt_log, rt_result>>

vars == <<cxVars, lsVars, refVars, scVars, feVars, pfVars, ocVars, prVars, rtVars>>

\* the variables an action of one part leaves alone
cxOthers == <<lsVars, refVars, scVars, feVars, pfVars, ocVars, prVars, rtVars>>
lsOthers == <<cxVars, refVars, scVars, feVars, pfVars, ocVars, prVars, rtVars>>
refOthers == <<cxVars, lsVars, scVars, feVars, pfVars, ocVars, prVars, rtVars>>
scOthers == <<cxVars, lsVars, refVars, feVars, pfVars, ocVars, prVars, rtVars>>
feOthers == <<cxVars, lsVars, refVars, scVars, pfVars, ocVars, prVars, rtVars>>
pfOthers == <<cxVars, lsVars, refVars, scVars, feVars, ocVars, prVars, rtVars>>
ocOthers == <<cxVars, lsVars, refVars, scVars, feVars, pfVars, prVars, rtVars>>
\* the scan against a relay that follows the protocols changes scVars and prVars
prOthers == <<cxVars, lsVars, refVars, feVars, pfVars, ocVars, rtVars>>
rtOthers == <<cxVars, lsVars, refVars, scVars, feVars, pfVars, ocVars, prVars>>

-----------------------------------------------------------------------------
(* Bounds of the model *)

\* a drawn payload needs at most MaxChunks frames of MUX_MAX_SDU_N2N bytes (+1 byte)
MaxChunks == 3
\* frames the peer writes to one lsview connection
MaxLsWire == 3
\* recv calls the application makes on one lsview connection
MaxLsRecv == 3
\* calls (recv, fetch_block_range) the application makes on one reference client
MaxRefOps == 1
\* MsgBlock messages the relay streams in one batch
MaxBlocks == 2
\* unsolicited frames (keep-alive, other protocols) the relay writes
MaxNoise == 2

-----------------------------------------------------------------------------
(* Program constants *)

MUX_HEADER_SIZE == 8
MUX_MAX_SDU_N2N == 12288
MUX_MODE_INITIATOR == 0
MUX_MODE_RESPONDER == 1

HANDSHAKE == 0
CHAIN_SYNC == 2
BLOCK_FETCH == 3
TX_SUBMISSION == 4
KEEP_ALIVE == 8
PEER_SHARING == 10

V14 == 14
V15 == 15
MAINNET_MAGIC == 764824073

\* 0x7FFF and 0xFFFF as moduli: x & 0x7FFF = x % 2^15, x & 0xFFFF = x % 2^16.
\* Timestamps are kept below 2^31 (the model checker's integers), where
\* & 0xFFFFFFFF changes nothing.
Pow15 == 32768
Pow16 == 65536

-----------------------------------------------------------------------------
(* Byte strings *)

NoBytes == <<>>

\* the n bytes of source string src
BytesOf(src, n) == IF n <= 0 THEN NoBytes ELSE <<[src |-> src, lo |-> 0, hi |-> n]>>

RECURSIVE BLen(_)
\* len(b)
BLen(b) == IF b = <<>> THEN 0 ELSE (Head(b).hi - Head(b).lo) + BLen(Tail(b))

\* a + b
BCat(a, b) ==
    IF a = <<>> THEN b
    ELSE IF b = <<>> THEN a
    ELSE LET x == a[Len(a)]
             y == Head(b)
         IN  IF x.src = y.src /\ x.hi = y.lo
             THEN SubSeq(a, 1, Len(a) - 1) \o <<[src |-> x.src, lo |-> x.lo, hi |-> y.hi]>> \o Tail(b)
             ELSE a \o b

Min(a, b) == IF a < b THEN a ELSE b
Max(a, b) == IF a > b THEN a ELSE b

RECURSIVE BSlice(_, _, _)
\* b[from : to] for 0 <= from (Python clips the slice to the string)
BSlice(b, from, to) ==
    IF b = <<>> \/ to <= from THEN <<>>
    ELSE LET h == Head(b)
             n == h.hi - h.lo
         IN  IF from >= n THEN BSlice(Tail(b), from - n, to - n)
             ELSE BCat(<<[src |-> h.src, lo |-> h.lo + from, hi |-> h.lo + Min(to, n)]>>,
                       BSlice(Tail(b), 0, to - n))

RECURSIVE BJoin(_)
\* b"".join(payloads)
BJoin(ps) == IF ps = <<>> THEN NoBytes ELSE BCat(Head(ps), BJoin(Tail(ps)))

-----------------------------------------------------------------------------
(* MUX codec: a frame is the decoded content of header + payload,          *)
(* ts = bytes 0..3, mp = bytes 4..5, length = bytes 6..7 (big-endian)      *)

Frame(ts, mp, length, payload) ==
    [ts |-> ts, mp |-> mp, length |-> length, payload |-> payload]

\* no frame built yet
NoFrame == [none |-> TRUE]

\* lsview.n2n_client.mux_encode:
\*   mp = ((protocol_id & 0x7FFF) << 1) | (0 if initiator else 1)
\*   pack(">IHH", timestamp & 0xFFFFFFFF, mp & 0xFFFF, len(payload) & 0xFFFF)
mux_encode(protocol_id, payload, initiator, timestamp) ==
    LET mp == ((protocol_id % Pow15) * 2) + (IF initiator THEN 0 ELSE 1)
    IN  Frame(timestamp, mp % Pow16, BLen(payload) % Pow16, payload)

\* mutant: the decoder masks the field without shifting out the mode bit
mux_decode_header_noshift(header) ==
    [timestamp |-> header.ts,
     proto_id  |-> header.mp % Pow15,
     initiator |-> (header.mp % 2) = 0,
     length    |-> header.length]

\* lsview.n2n_client.mux_decode_header: (timestamp, proto_id, initiator, length)
mux_decode_header(header) ==
    [timestamp |-> header.ts,
     proto_id  |-> (header.mp \div 2) % Pow15,
     initiator |-> (header.mp % 2) = 0,
     length    |-> header.length]

\* struct.pack("!IHH", ..) raises struct.error for a field out of range
StructError == [error |-> "struct.error"]

\* reference mux_encode:
\*   timestamp = int(time.monotonic() * 1_000_000) & 0xFFFFFFFF
\*   proto_with_mode = (mode << 15) | (protocol_id & 0x7FFF)
\*   pack("!IHH", timestamp, proto_with_mode, len(payload))
orig_mux_encode(protocol_id, payload, mode, now) ==
    LET proto_with_mode == (mode * Pow15) + (protocol_id % Pow15)
    IN  IF BLen(payload) >= Pow16 \/ proto_with_mode >= Pow16
        THEN StructError
        ELSE Frame(now, proto_with_mode, BLen(payload), payload)

\* reference MuxSegment.decode(header, payload)
MuxSegment_decode(header, payload) ==
    [timestamp   |-> header.ts,
     mode        |-> (header.mp \div Pow15) % 2,
     protocol_id |-> header.mp % Pow15,
     payload     |-> payload]

RECURSIVE split_loop(_, _, _, _, _, _)
\* the while loop of mux_split_and_encode
split_loop(protocol_id, payload, mode, max_payload, now, offset) ==
    IF offset < BLen(payload)
    THEN <<orig_mux_encode(protocol_id, BSlice(payload, offset, offset + max_payload), mode, now)>>
         \o split_loop(protocol_id, payload, mode, max_payload, now, offset + max_payload)
    ELSE <<>>

\* reference mux_split_and_encode
mux_split_and_encode(protocol_id, payload, mode, max_payload, now) ==
    IF BLen(payload) <= max_payload
    THEN <<orig_mux_encode(protocol_id, payload, mode, now)>>
    ELSE split_loop(protocol_id, payload, mode, max_payload, now, 0)

\* N2NConnection.send: self.writer.write(mux_encode(int(protocol), cbor_payload))
N2N_send(protocol, cbor_payload) ==
    <<mux_encode(protocol, cbor_payload, TRUE, 0)>>

\* OuroborosClient._send_protocol: the segments written, in order
send_protocol(protocol_id, payload, now) ==
    mux_split_and_encode(protocol_id, payload, MUX_MODE_INITIATOR, MUX_MAX_SDU_N2N, now)

-----------------------------------------------------------------------------
(* CBOR values, tagged by kind; cbor2.dumps(x) is the byte string whose    *)
(* source is x, cbor2.loads gives x back from a byte string that starts    *)
(* with all of x's bytes                                                   *)

\* Python's None where the other values are sets
None == {}

\* fetch_block_body has not run; no reply was read
NoFetch == [first |-> {}, nblk |-> 0, body |-> {}, done |-> FALSE]
NoReply == [at |-> "", type |-> ""]
\* nothing was reconstructed
NoData == [blob |-> {}, out |-> {}]
NoExit == [status |-> -1, message |-> ""]
\* BlockFetch is idle at the relay
NoBatch == [st |-> "idle", slot |-> 0]

U(n) == [k |-> "uint", v |-> n]
Bool(b) == [k |-> "bool", v |-> b]
Bstr(id, n) == [k |-> "bytes", v |-> id, n |-> n]
L(items) == [k |-> "list", v |-> items]
Map(entries) == [k |-> "map", v |-> entries]

\* x == n for a decoded item x
IsU(x, n) == x.k = "uint" /\ x.v = n

\* bytes of the initial byte of an item with argument n
HeadLen(n) == IF n < 24 THEN 1 ELSE IF n < 256 THEN 2 ELSE IF n < Pow16 THEN 3 ELSE 5

RECURSIVE CborSize(_), CborSizeAll(_)
\* len(cbor2.dumps(x))
CborSize(x) ==
    CASE x.k = "uint"  -> HeadLen(x.v)
      [] x.k = "bool"  -> 1
      [] x.k = "bytes" -> HeadLen(x.n) + x.n
      [] x.k = "ebytes" -> HeadLen(x.n) + x.n
      [] x.k = "sbytes" -> HeadLen(x.n) + x.n
      [] x.k = "text"  -> HeadLen(x.n) + x.n
      [] x.k = "hextext" -> HeadLen(x.n) + x.n
      [] x.k = "hashtext" -> HeadLen(x.n) + x.n
      [] x.k = "tag"   -> HeadLen(x.tag) + CborSize(x.v)
      [] x.k = "list"  -> HeadLen(Len(x.v)) + CborSizeAll(x.v)
      [] x.k = "map"   -> HeadLen(Len(x.v)) + CborSizeAll(x.v)
      [] OTHER         -> 1
CborSizeAll(xs) ==
    IF xs = <<>> THEN 0
    ELSE (IF Head(xs).k = "pair"
          THEN CborSize(Head(xs).key) + CborSize(Head(xs).val)
          ELSE CborSize(Head(xs))) + CborSizeAll(Tail(xs))

Pair(key, val) == [k |-> "pair", key |-> key, val |-> val]

\* cbor2.dumps(x)
cbor_dumps(x) == BytesOf(x, CborSize(x))

\* a text string, a tagged item, and a byte string that holds cbor2.dumps(x)
TxtN(v, n) == [k |-> "text", v |-> v, n |-> n]
Txt(s) == TxtN(s, Len(s))
Tag(t, x) == [k |-> "tag", tag |-> t, v |-> x]
Enc(x) == [k |-> "ebytes", v |-> x, n |-> CborSize(x)]

\* a byte string that is bytes lo..hi of the data named src, and a text
\* string that spells those bytes in hex (well, or with a defect)
Seg(src, lo, hi) == [k |-> "sbytes", v |-> [src |-> src, lo |-> lo, hi |-> hi], n |-> hi - lo]
\* the text of the SHA-256 hex digest of byte string b, in lower or upper case
DigestTxt(b, upper) == [k |-> "hashtext", v |-> [sha256 |-> b, upper |-> upper], n |-> 64]
HexTxt(src, lo, hi, well) ==
    [k |-> "hextext", v |-> [src |-> src, lo |-> lo, hi |-> hi, well |-> well],
     n |-> 2 * (hi - lo) + (IF well THEN 0 ELSE 1)]

\* isinstance(x, bytes), isinstance(x, int), isinstance(x, str)
IsBytes(x) == x.k \in {"bytes", "ebytes", "sbytes"}
IsInt(x) == x.k = "uint"
IsStr(x) == x.k \in {"text", "hextext", "hashtext"}

\* the byte string a decoded bytes item is
AsBytes(x) ==
    IF x.k = "ebytes" THEN cbor_dumps(x.v)
    ELSE IF x.k = "sbytes"
    THEN IF x.n <= 0 THEN NoBytes
         ELSE <<[src |-> [k |-> "raw", v |-> x.v.src], lo |-> x.v.lo, hi |-> x.v.hi]>>
    ELSE BytesOf([k |-> "raw", v |-> x.v], x.n)

\* a == b for two decoded items used as dict keys
KeyEq(a, b) == a.k = b.k /\ a.v = b.v

\* positions of key in the entries of a decoded map; a dict keeps the last
MapIdx(m, key) == {i \in 1..Len(m.v) : KeyEq(m.v[i].key, key)}
MapHas(m, key) == MapIdx(m, key) # {}
MapGet(m, key) == m.v[CHOOSE i \in MapIdx(m, key) : \A j \in MapIdx(m, key) : j <= i].val

\* list(d.items()) of the dict a decoded map gives: keys in order of first
\* appearance, each with its last value
DictItems(m) ==
    LET First(i) == \A j \in 1..(i - 1) : ~KeyEq(m.v[j].key, m.v[i].key)
        idx == {i \in 1..Len(m.v) : First(i)}
        Nth(n) == CHOOSE i \in idx : Cardinality({j \in idx : j < i}) = n - 1
    IN  [n \in 1..Cardinality(idx) |-> Pair(m.v[Nth(n)].key, MapGet(m, m.v[Nth(n)].key))]

\* what decoding bytes that do not start at an item boundary may give
GarbageValues == {U(99), L(<<U(99)>>)}

\* cbor2.loads(b): the possible outcomes. A byte string holding the whole
\* item gives the item (trailing bytes are not read); a truncated item raises
\* CBORDecodeEOF; bytes from the middle of an item, and bytes that are no
\* encoding, decode to something else or raise.
cbor_loads(b) ==
    IF b = <<>> THEN {[ok |-> FALSE, err |-> "CBORDecodeEOF"]}
    ELSE LET h == Head(b)
         IN  IF h.lo = 0 /\ h.src.k # "raw"
             THEN IF h.hi = CborSize(h.src)
                  THEN {[ok |-> TRUE, val |-> h.src]}
                  ELSE {[ok |-> FALSE, err |-> "CBORDecodeEOF"]}
             ELSE {[ok |-> FALSE, err |-> "CBORDecodeError"]}
                  \cup {[ok |-> TRUE, val |-> g] : g \in GarbageValues}

-----------------------------------------------------------------------------
(* Handshake messages *)

\* HandshakeMsg.propose_versions: [0, {v: [magic, initiator_only, peer_sharing, query]}]
propose_versions(network_magic, initiator_only, peer_sharing, query, versions) ==
    cbor_dumps(L(<<U(0),
                   Map([i \in 1..Len(versions) |->
                          Pair(U(versions[i]),
                               L(<<U(network_magic), Bool(initiator_only),
                                   U(peer_sharing), Bool(query)>>))])>>))

VersionData == L(<<U(MAINNET_MAGIC), Bool(TRUE), U(0), Bool(FALSE)>>)
MsgAcceptVersion(v) == L(<<U(1), U(v), VersionData>>)
MsgRefuse == L(<<U(2), L(<<U(0), L(<<U(V14)>>)>>)>>)
MsgQueryReply == L(<<U(3), Map(<<Pair(U(V14), VersionData)>>)>>)

Err(e) == [type |-> "error", err |-> e]

\* lsview HandshakeMsg.decode_response on a decoded msg
ls_decode_msg(msg) ==
    IF msg.k # "list" \/ Len(msg.v) = 0 THEN Err("ValueError")
    ELSE IF IsU(msg.v[1], 1)
         THEN IF Len(msg.v) # 3 THEN Err("ValueError")
              ELSE IF msg.v[2].k # "uint" THEN Err("TypeError")
              ELSE [type |-> "accept", version |-> msg.v[2].v]
    ELSE IF IsU(msg.v[1], 2) THEN [type |-> "refuse"]
    ELSE IF IsU(msg.v[1], 3)
         THEN IF Len(msg.v) < 2 THEN Err("IndexError") ELSE [type |-> "query_reply"]
    ELSE [type |-> "unknown"]

\* lsview HandshakeMsg.decode_response(payload): the possible outcomes
ls_decode_response(payload) ==
    {IF r.ok THEN ls_decode_msg(r.val) ELSE Err(r.err) : r \in cbor_loads(payload)}

\* reference HandshakeMsg.decode_response on a decoded msg
orig_decode_msg(msg) ==
    IF msg.k # "list" THEN Err("TypeError")
    ELSE IF Len(msg.v) = 0 THEN Err("IndexError")
    ELSE IF IsU(msg.v[1], 1)
         THEN IF Len(msg.v) < 3 THEN Err("IndexError")
              ELSE IF msg.v[2].k # "uint" THEN [type |-> "accept", version |-> 0]
              ELSE [type |-> "accept", version |-> msg.v[2].v]
    ELSE IF IsU(msg.v[1], 2)
         THEN IF Len(msg.v) < 2 THEN Err("IndexError")
              ELSE IF msg.v[2].k # "list" THEN Err("TypeError")
              ELSE IF Len(msg.v[2].v) = 0 THEN Err("IndexError")
              ELSE [type |-> "refuse"]
    ELSE IF IsU(msg.v[1], 3)
         THEN IF Len(msg.v) < 2 THEN Err("IndexError") ELSE [type |-> "query_reply"]
    ELSE [type |-> "unknown"]

\* reference HandshakeMsg.decode_response(data): the possible outcomes
orig_decode_response(data) ==
    {IF r.ok THEN orig_decode_msg(r.val) ELSE Err(r.err) : r \in cbor_loads(data)}

-----------------------------------------------------------------------------
(* The peer (a relay): it frames what it sends as section 4.A lays out,    *)
(* mode in the most significant bit of bytes 4..5                          *)

\* a frame as the relay writes it
WireFrame(protocol_id, mode, payload) ==
    Frame(0, mode * Pow15 + protocol_id, BLen(payload), payload)

\* first frames a relay may answer a proposal with
HsReplies ==
    {MsgAcceptVersion(V14), MsgAcceptVersion(V15), MsgRefuse, MsgQueryReply,
     L(<<U(9)>>), L(<<U(1)>>), L(<<>>), U(1)}

PeerFirstFrames ==
    {WireFrame(HANDSHAKE, m, cbor_dumps(x)) :
        m \in {MUX_MODE_INITIATOR, MUX_MODE_RESPONDER}, x \in HsReplies}
    \cup {WireFrame(CHAIN_SYNC, MUX_MODE_RESPONDER, cbor_dumps(MsgAcceptVersion(V14)))}

-----------------------------------------------------------------------------
(* lsview N2NConnection: open/handshake, recv, close.  One task drives the *)
(* connection; recv reads the socket itself.                               *)

Call(op, proto, result, payload) ==
    [op |-> op, proto |-> proto, result |-> result, payload |-> payload]

\* frames the peer has written so far
LsPeerCount == Len(ls_in) + Len(ls_read) - (IF ls_skew THEN 1 ELSE 0)

LsRecvCount == Cardinality({i \in 1..Len(ls_calls) : ls_calls[i].op = "recv"})

\* mini-protocol messages the peer sends after the handshake, seen by recv as
\* opaque payloads
LsMsgs == {L(<<U(1)>>), L(<<U(5)>>)}

\* later frames: bytes 4..5 in the layout of section 4.A and in the layout
\* lsview's own mux_encode writes, for the two protocols the client reads
LsLaterFrames ==
    {WireFrame(p, MUX_MODE_RESPONDER, cbor_dumps(x)) :
        p \in {CHAIN_SYNC, BLOCK_FETCH}, x \in LsMsgs}
    \cup {mux_encode(p, cbor_dumps(x), FALSE, 0) :
        p \in {CHAIN_SYNC, BLOCK_FETCH}, x \in LsMsgs}

\* what recv returns when it parses the middle of a frame as a header
LsGarbage == BytesOf([k |-> "raw", v |-> "garbage"], 1)

LsInit ==
    /\ ls_pc = "new"
    /\ ls_writer = FALSE
    /\ ls_negotiated_version = None
    /\ ls_in = <<>>
    /\ ls_skew = FALSE
    /\ ls_eof = FALSE
    /\ ls_out = <<>>
    /\ ls_read = <<>>
    /\ ls_calls = <<>>
    \* the codec harness is not running
    /\ cx_phase = "off"
    /\ cx_proto = 0
    /\ cx_len = 0
    /\ cx_now = 0
    /\ cx_ls = NoFrame
    /\ cx_ref = NoFrame
    /\ cx_segs = <<>>
    /\ cx_send = <<>>
    /\ cx_dec = NoFrame
    \* no reference client exists
    /\ r_conn = "off"
    /\ r_connected = FALSE
    /\ r_version = None
    /\ r_writer = "none"
    /\ r_wire = <<>>
    /\ r_eof = FALSE
    /\ r_sent = <<>>
    /\ r_demux = "none"
    /\ r_bufs = <<>>
    /\ r_task = [op |-> "idle"]
    /\ r_calls = <<>>
    /\ r_reply = <<>>
    /\ r_routed = <<>>
    /\ r_closed = ""
    /\ r_peer = [bf |-> "idle"]
    \* no CIP-25 scan is running
    /\ sc_pc = "off"
    /\ sc_desc = None
    /\ sc_open = FALSE
    /\ sc_sent = <<>>
    /\ sc_yielded = 0
    /\ sc_pages = <<>>
    /\ sc_manifest = None
    /\ sc_fetch = NoFetch
    /\ sc_file = None
    /\ sc_result = "running"
    /\ sc_last = NoReply
    /\ sc_noise = 0
    /\ sc_wait = 0
    /\ sc_idle = 0
    \* no other front-end is running
    /\ fe_pc = "off"
    /\ fe_tool = ""
    /\ fe_args = <<>>
    /\ fe_data = NoData
    /\ fe_file = None
    /\ fe_out = None
    /\ fe_result = "running"
    /\ fe_log = <<>>
    \* no function harness is running
    /\ pf_pc = "off"
    /\ pf_fn = ""
    /\ pf_in = <<>>
    /\ pf_out = <<>>
    \* no fetch-block command is running
    /\ oc_pc = "off"
    /\ oc_args = <<>>
    /\ oc_cands = <<>>
    /\ oc_tried = <<>>
    /\ oc_conn = None
    /\ oc_closed = <<>>
    /\ oc_sent = <<>>
    /\ oc_fetch = NoFetch
    /\ oc_replies = <<>>
    /\ oc_file = None
    /\ oc_exit = NoExit
    \* the relay of the scan is not modelled
    /\ pr_cs = "off"
    /\ pr_bf = NoBatch
    /\ pr_wire = <<>>
    /\ pr_chain = <<>>
    /\ pr_ptr = 0
    /\ pr_forks = 0
    /\ pr_viol = {}
    \* no retry loop is running
    /\ rt_pc = "off"
    /\ rt_fn = ""
    /\ rt_retries = 0
    /\ rt_i = 0
    /\ rt_last = None
    /\ rt_log = <<>>
    /\ rt_result = None

\* open(): asyncio.open_connection fails (OSError or timeout)
LsOpenFail ==
    /\ ls_pc = "new"
    /\ ls_pc' = "failed"
    /\ \E e \in {"OSError", "TimeoutError"} :
          ls_calls' = Append(ls_calls, Call("open", HANDSHAKE, e, NoBytes))
    /\ UNCHANGED <<ls_writer, ls_negotiated_version, ls_in, ls_skew, ls_eof, ls_out, ls_read>>
    /\ UNCHANGED lsOthers

\* open() up to the first read of handshake(): connect, write the proposal
LsOpenSend ==
    /\ ls_pc = "new"
    /\ ls_pc' = "hs_wait"
    /\ ls_writer' = TRUE
    /\ ls_out' = Append(ls_out,
                        mux_encode(HANDSHAKE,
                                   propose_versions(MAINNET_MAGIC, TRUE, 0, FALSE, <<V14>>),
                                   TRUE, 0))
    /\ UNCHANGED <<ls_negotiated_version, ls_in, ls_skew, ls_eof, ls_read, ls_calls>>
    /\ UNCHANGED lsOthers

\* the relay writes a frame
LsPeerSend ==
    /\ ls_pc \in {"hs_wait", "ready"}
    /\ ~ls_eof
    /\ LsPeerCount < MaxLsWire
    /\ \E f \in (IF LsPeerCount = 0 THEN PeerFirstFrames ELSE LsLaterFrames) :
          ls_in' = Append(ls_in, f)
    /\ UNCHANGED <<ls_pc, ls_writer, ls_negotiated_version, ls_skew, ls_eof, ls_out,
                   ls_read, ls_calls>>
    /\ UNCHANGED lsOthers

\* the relay closes the socket
LsPeerClose ==
    /\ ls_pc \in {"hs_wait", "ready"}
    /\ ~ls_eof
    /\ ls_eof' = TRUE
    /\ UNCHANGED <<ls_pc, ls_writer, ls_negotiated_version, ls_in, ls_skew, ls_out,
                   ls_read, ls_calls>>
    /\ UNCHANGED lsOthers

\* handshake() from the header read on, with a frame to read
LsHandshakeRecv ==
    /\ ls_pc = "hs_wait"
    /\ ls_in # <<>>
    /\ LET f == Head(ls_in)
           hdr == mux_decode_header(f)
       IN  /\ ls_read' = Append(ls_read, f)
           /\ IF hdr.proto_id # HANDSHAKE
              THEN \* raise ValueError("unexpected protocol during handshake")
                   /\ ls_skew' = (f.length > 0)
                   /\ ls_in' = IF f.length > 0 THEN ls_in ELSE Tail(ls_in)
                   /\ ls_pc' = "failed"
                   /\ ls_calls' = Append(ls_calls, Call("open", HANDSHAKE, "ValueError", NoBytes))
                   /\ UNCHANGED ls_negotiated_version
              ELSE /\ ls_in' = Tail(ls_in)
                   /\ UNCHANGED ls_skew
                   /\ \E decoded \in ls_decode_response(f.payload) :
                         IF decoded.type = "error"
                         THEN /\ ls_pc' = "failed"
                              /\ ls_calls' = Append(ls_calls,
                                                    Call("open", HANDSHAKE, decoded.err, NoBytes))
                              /\ UNCHANGED ls_negotiated_version
                         ELSE IF decoded.type # "accept"
                         THEN \* raise RuntimeError("handshake failed")
                              /\ ls_pc' = "failed"
                              /\ ls_calls' = Append(ls_calls,
                                                    Call("open", HANDSHAKE, "RuntimeError", NoBytes))
                              /\ UNCHANGED ls_negotiated_version
                         ELSE /\ ls_negotiated_version' = {decoded.version}
                              /\ ls_pc' = "ready"
                              /\ ls_calls' = Append(ls_calls, Call("open", HANDSHAKE, "ok", NoBytes))
    /\ UNCHANGED <<ls_writer, ls_eof, ls_out>>
    /\ UNCHANGED lsOthers

\* handshake(): nothing to read, readexactly times out or hits EOF
LsHandshakeNoReply ==
    /\ ls_pc = "hs_wait"
    /\ ls_in = <<>>
    /\ ls_pc' = "failed"
    /\ ls_calls' = Append(ls_calls,
                          Call("open", HANDSHAKE,
                               IF ls_eof THEN "IncompleteReadError" ELSE "TimeoutError",
                               NoBytes))
    /\ UNCHANGED <<ls_writer, ls_negotiated_version, ls_in, ls_skew, ls_eof, ls_out, ls_read>>
    /\ UNCHANGED lsOthers

\* recv(expected_protocol)
LsRecv(expected_protocol) ==
    /\ ls_pc = "ready"
    /\ LsRecvCount < MaxLsRecv
    /\ IF ls_skew
       THEN \* the next 8 bytes are payload bytes of the frame whose header was
            \* read: the outcome depends on those bytes
            /\ \E r \in {"ValueError", "IncompleteReadError", "TimeoutError", "ok"} :
                  ls_calls' = Append(ls_calls,
                                     Call("recv", expected_protocol, r,
                                          IF r = "ok" THEN LsGarbage ELSE NoBytes))
            /\ UNCHANGED <<ls_in, ls_skew, ls_read>>
       ELSE IF ls_in = <<>>
       THEN /\ ls_calls' = Append(ls_calls,
                                  Call("recv", expected_protocol,
                                       IF ls_eof THEN "IncompleteReadError" ELSE "TimeoutError",
                                       NoBytes))
            /\ UNCHANGED <<ls_in, ls_skew, ls_read>>
       ELSE LET f == Head(ls_in)
                hdr == mux_decode_header(f)
            IN  /\ ls_read' = Append(ls_read, f)
                /\ IF hdr.proto_id # expected_protocol
                   THEN \* raise ValueError("unexpected protocol"); payload unread
                        /\ ls_skew' = (f.length > 0)
                        /\ ls_in' = IF f.length > 0 THEN ls_in ELSE Tail(ls_in)
                        /\ ls_calls' = Append(ls_calls,
                                              Call("recv", expected_protocol, "ValueError", NoBytes))
                   ELSE /\ ls_in' = Tail(ls_in)
                        /\ UNCHANGED ls_skew
                        /\ ls_calls' = Append(ls_calls,
                                              Call("recv", expected_protocol, "ok", f.payload))
    /\ UNCHANGED <<ls_pc, ls_writer, ls_negotiated_version, ls_eof, ls_out>>
    /\ UNCHANGED lsOthers

\* close()
LsClose ==
    /\ ls_pc \in {"ready", "failed"}
    /\ ls_pc' = "closed"
    /\ ls_writer' = FALSE
    /\ UNCHANGED <<ls_negotiated_version, ls_in, ls_skew, ls_eof, ls_out, ls_read, ls_calls>>
    /\ UNCHANGED lsOthers

LsNext ==
    \/ LsOpenFail
    \/ LsOpenSend
    \/ LsPeerSend
    \/ LsPeerClose
    \/ LsHandshakeRecv
    \/ LsHandshakeNoReply
    \/ \E p \in {CHAIN_SYNC, BLOCK_FETCH} : LsRecv(p)
    \/ LsClose

-----------------------------------------------------------------------------
(* BlockFetch and KeepAlive messages of the reference client *)

Point(slot, hash) == L(<<U(slot), Bstr(hash, 32)>>)
MsgStartBatch == L(<<U(2)>>)
MsgNoBlocks == L(<<U(3)>>)
MsgBlock(body) == L(<<U(4), body>>)
MsgBatchDone == L(<<U(5)>>)
MsgKeepAlive(cookie) == L(<<U(0), U(cookie)>>)

\* BlockFetchMsg.request_range: [0, point_from, point_to]
request_range(point_from, point_to) == cbor_dumps(L(<<U(0), point_from, point_to>>))

\* KeepAliveMsg.response: [1, cookie]
keep_alive_response(cookie) == cbor_dumps(L(<<U(1), cookie>>))

\* reference BlockFetchMsg.decode_response on a decoded msg
bf_decode_msg(msg) ==
    IF msg.k # "list" THEN Err("TypeError")
    ELSE IF Len(msg.v) = 0 THEN Err("IndexError")
    ELSE IF IsU(msg.v[1], 2) THEN [type |-> "start_batch"]
    ELSE IF IsU(msg.v[1], 3) THEN [type |-> "no_blocks"]
    ELSE IF IsU(msg.v[1], 4)
         THEN IF Len(msg.v) < 2 THEN Err("IndexError")
              ELSE [type |-> "block", block_body |-> msg.v[2]]
    ELSE IF IsU(msg.v[1], 5) THEN [type |-> "batch_done"]
    ELSE [type |-> "unknown"]

\* reference BlockFetchMsg.decode_response(data): the possible outcomes
bf_decode_response(data) ==
    {IF r.ok THEN bf_decode_msg(r.val) ELSE Err(r.err) : r \in cbor_loads(data)}

\* parse_block(block_cbor): the FetchedBlock, of which raw_cbor is kept here
parse_block(block_cbor) ==
    [raw_cbor |-> IF block_cbor.k = "bytes" THEN block_cbor ELSE cbor_dumps(block_cbor)]

-----------------------------------------------------------------------------
(* The relay seen by the reference client *)

RECURSIVE WireSplit(_, _, _)
\* the frames of one message: consecutive frames of at most 12288 bytes
WireSplit(protocol_id, payload, offset) ==
    IF offset < BLen(payload)
    THEN <<WireFrame(protocol_id, MUX_MODE_RESPONDER,
                     BSlice(payload, offset, offset + MUX_MAX_SDU_N2N))>>
         \o WireSplit(protocol_id, payload, offset + MUX_MAX_SDU_N2N)
    ELSE <<>>

\* what the relay writes for message x of a mini-protocol
WireMsg(protocol_id, x) == WireSplit(protocol_id, cbor_dumps(x), 0)

RefFirstFrames ==
    {WireFrame(HANDSHAKE, MUX_MODE_RESPONDER, cbor_dumps(x)) : x \in HsReplies}
    \cup {WireFrame(CHAIN_SYNC, MUX_MODE_RESPONDER, cbor_dumps(MsgAcceptVersion(V14)))}

\* block bodies the relay serves: one fits a frame, one does not
Bodies == {Bstr("b1", 100), Bstr("b2", MUX_MAX_SDU_N2N)}

\* frames nobody asked for: a keep-alive ping, a ChainSync message, a frame of
\* a protocol the client keeps no buffer for
NoiseMsgs ==
    {WireMsg(KEEP_ALIVE, MsgKeepAlive(5)),
     WireMsg(CHAIN_SYNC, L(<<U(1)>>)),
     WireMsg(TX_SUBMISSION, L(<<U(0)>>))}

\* MsgRequestRange messages the client has written
RequestsSent ==
    Cardinality({i \in 1..Len(r_sent) :
                    /\ r_sent[i].mp % Pow15 = BLOCK_FETCH
                    /\ \E r \in cbor_loads(r_sent[i].payload) :
                          r.ok /\ r.val.k = "list" /\ Len(r.val.v) = 3 /\ IsU(r.val.v[1], 0)})

-----------------------------------------------------------------------------
(* Reference OuroborosClient: connect, the demultiplexer task, the         *)
(* application's calls, disconnect                                          *)

\* OuroborosClient.__init__: self._protocol_buffers
BufProtos == {HANDSHAKE, CHAIN_SYNC, BLOCK_FETCH, KEEP_ALIVE}

\* readings of time.monotonic() the encoder may take
ClockReadings == {7}

Idle == [op |-> "idle"]

\* the record of a finished call
RCall(op, proto, result, payload, blocks, read, left, at_start, during) ==
    [op |-> op, proto |-> proto, result |-> result, payload |-> payload,
     blocks |-> blocks, read |-> read, left |-> left,
     closed_at_start |-> at_start, closed_during |-> during]

ConnectCall(result) == RCall("connect", HANDSHAKE, result, NoBytes, <<>>, <<>>, <<>>, FALSE, FALSE)

\* the call in progress ends with result
Finish(result, payload, blocks, read) ==
    /\ r_calls' = Append(r_calls,
                         RCall(r_task.op, r_task.proto, result, payload, blocks, read,
                               [i \in 1..Len(r_bufs'[r_task.proto]) |->
                                   r_bufs'[r_task.proto][i].payload],
                               r_task.closed_at_start, r_task.closed_during))
    /\ r_task' = Idle

RefOps == Cardinality({i \in 1..Len(r_calls) : r_calls[i].op # "connect"})

RefInit ==
    /\ r_conn = "new"
    /\ r_connected = FALSE
    /\ r_version = None
    /\ r_writer = "none"
    /\ r_wire = <<>>
    /\ r_eof = FALSE
    /\ r_sent = <<>>
    /\ r_demux = "none"
    /\ r_bufs = [p \in BufProtos |-> <<>>]
    /\ r_task = Idle
    /\ r_calls = <<>>
    /\ r_reply = <<>>
    /\ r_routed = <<>>
    /\ r_closed = ""
    /\ r_peer = [bf |-> "idle", first |-> FALSE, blocks |-> 0, answered |-> 0, noise |-> 0,
                 bf_msgs |-> <<>>]
    \* the codec harness is not running
    /\ cx_phase = "off"
    /\ cx_proto = 0
    /\ cx_len = 0
    /\ cx_now = 0
    /\ cx_ls = NoFrame
    /\ cx_ref = NoFrame
    /\ cx_segs = <<>>
    /\ cx_send = <<>>
    /\ cx_dec = NoFrame
    \* no lsview connection exists
    /\ ls_pc = "off"
    /\ ls_writer = FALSE
    /\ ls_negotiated_version = None
    /\ ls_in = <<>>
    /\ ls_skew = FALSE
    /\ ls_eof = FALSE
    /\ ls_out = <<>>
    /\ ls_read = <<>>
    /\ ls_calls = <<>>
    \* no CIP-25 scan is running
    /\ sc_pc = "off"
    /\ sc_desc = None
    /\ sc_open = FALSE
    /\ sc_sent = <<>>
    /\ sc_yielded = 0
    /\ sc_pages = <<>>
    /\ sc_manifest = None
    /\ sc_fetch = NoFetch
    /\ sc_file = None
    /\ sc_result = "running"
    /\ sc_last = NoReply
    /\ sc_noise = 0
    /\ sc_wait = 0
    /\ sc_idle = 0
    \* no other front-end is running
    /\ fe_pc = "off"
    /\ fe_tool = ""
    /\ fe_args = <<>>
    /\ fe_data = NoData
    /\ fe_file = None
    /\ fe_out = None
    /\ fe_result = "running"
    /\ fe_log = <<>>
    \* no function harness is running
    /\ pf_pc = "off"
    /\ pf_fn = ""
    /\ pf_in = <<>>
    /\ pf_out = <<>>
    \* no fetch-block command is running
    /\ oc_pc = "off"
    /\ oc_args = <<>>
    /\ oc_cands = <<>>
    /\ oc_tried = <<>>
    /\ oc_conn = None
    /\ oc_closed = <<>>
    /\ oc_sent = <<>>
    /\ oc_fetch = NoFetch
    /\ oc_replies = <<>>
    /\ oc_file = None
    /\ oc_exit = NoExit
    \* the relay of the scan is not modelled
    /\ pr_cs = "off"
    /\ pr_bf = NoBatch
    /\ pr_wire = <<>>
    /\ pr_chain = <<>>
    /\ pr_ptr = 0
    /\ pr_forks = 0
    /\ pr_viol = {}
    \* no retry loop is running
    /\ rt_pc = "off"
    /\ rt_fn = ""
    /\ rt_retries = 0
    /\ rt_i = 0
    /\ rt_last = None
    /\ rt_log = <<>>
    /\ rt_result = None

\* connect(): asyncio.open_connection fails, ConnectionError
RConnectFail ==
    /\ r_conn = "new"
    /\ r_conn' = "failed"
    /\ r_calls' = Append(r_calls, ConnectCall("ConnectionError"))
    /\ UNCHANGED <<r_connected, r_version, r_writer, r_wire, r_eof, r_sent, r_demux, r_bufs,
                   r_task, r_reply, r_routed, r_closed, r_peer>>
    /\ UNCHANGED refOthers

\* connect() up to the read of the reply: TCP up, the proposal written
RConnectSend ==
    /\ r_conn = "new"
    /\ r_conn' = "hs_wait"
    /\ r_connected' = TRUE
    /\ r_writer' = "open"
    /\ \E now \in ClockReadings :
          r_sent' = Append(r_sent,
                           orig_mux_encode(HANDSHAKE,
                                           propose_versions(MAINNET_MAGIC, TRUE, 0, FALSE, <<V14>>),
                                           MUX_MODE_INITIATOR, now))
    /\ UNCHANGED <<r_version, r_wire, r_eof, r_demux, r_bufs, r_task, r_calls, r_reply,
                   r_routed, r_closed, r_peer>>
    /\ UNCHANGED refOthers

\* connect() from _read_segment on, with a frame to read
RConnectRecv ==
    /\ r_conn = "hs_wait"
    /\ r_connected
    /\ r_wire # <<>>
    /\ LET f == Head(r_wire)
           seg == MuxSegment_decode(f, f.payload)
       IN  /\ r_wire' = Tail(r_wire)
           /\ r_reply' = <<f>>
           /\ IF seg.protocol_id # HANDSHAKE
              THEN /\ r_conn' = "failed"
                   /\ r_calls' = Append(r_calls, ConnectCall("ConnectionError"))
                   /\ UNCHANGED <<r_version, r_demux>>
              ELSE \E result \in orig_decode_response(seg.payload) :
                      IF result.type = "accept"
                      THEN /\ r_version' = {result.version}
                           /\ r_demux' = "running"
                           /\ r_conn' = "up"
                           /\ r_calls' = Append(r_calls, ConnectCall("ok"))
                      ELSE /\ r_conn' = "failed"
                           /\ r_calls' = Append(r_calls,
                                                ConnectCall(IF result.type = "error"
                                                            THEN result.err
                                                            ELSE "ConnectionError"))
                           /\ UNCHANGED <<r_version, r_demux>>
    /\ UNCHANGED <<r_connected, r_writer, r_eof, r_sent, r_bufs, r_task, r_routed, r_closed,
                   r_peer>>
    /\ UNCHANGED refOthers

\* connect(): no reply within HANDSHAKE_SDU_TIMEOUT, or EOF
RConnectNoReply ==
    /\ r_conn = "hs_wait"
    /\ r_connected
    /\ r_wire = <<>>
    /\ r_conn' = "failed"
    /\ r_calls' = Append(r_calls,
                         ConnectCall(IF r_eof THEN "IncompleteReadError" ELSE "TimeoutError"))
    /\ UNCHANGED <<r_connected, r_version, r_writer, r_wire, r_eof, r_sent, r_demux, r_bufs,
                   r_task, r_reply, r_routed, r_closed, r_peer>>
    /\ UNCHANGED refOthers

\* the relay answers the proposal
RPeerFirst ==
    /\ r_conn = "hs_wait"
    /\ r_writer = "open"
    /\ ~r_eof
    /\ ~r_peer.first
    /\ \E f \in RefFirstFrames : r_wire' = Append(r_wire, f)
    /\ r_peer' = [r_peer EXCEPT !.first = TRUE]
    /\ UNCHANGED <<r_conn, r_connected, r_version, r_writer, r_eof, r_sent, r_demux, r_bufs,
                   r_task, r_calls, r_reply, r_routed, r_closed>>
    /\ UNCHANGED refOthers

\* the relay's BlockFetch server: answers a MsgRequestRange with MsgNoBlocks
\* or MsgStartBatch, then streams MsgBlock messages and ends with MsgBatchDone;
\* a faulty relay may send a message of an unknown tag instead
RPeerBlockFetch ==
    /\ r_conn = "up"
    /\ r_writer = "open"
    /\ ~r_eof
    /\ r_wire = <<>>
    /\ \/ /\ r_peer.bf = "idle"
          /\ r_peer.answered < RequestsSent
          /\ \/ /\ r_wire' = r_wire \o WireMsg(BLOCK_FETCH, MsgNoBlocks)
                /\ r_peer' = [r_peer EXCEPT !.answered = @ + 1,
                                          !.bf_msgs = Append(@, MsgNoBlocks)]
             \/ /\ r_wire' = r_wire \o WireMsg(BLOCK_FETCH, MsgStartBatch)
                /\ r_peer' = [r_peer EXCEPT !.bf = "streaming", !.blocks = 0,
                                          !.bf_msgs = Append(@, MsgStartBatch)]
       \/ /\ r_peer.bf = "streaming"
          /\ \/ /\ r_peer.blocks < MaxBlocks
                /\ \E body \in Bodies :
                      /\ r_wire' = r_wire \o WireMsg(BLOCK_FETCH, MsgBlock(body))
                      /\ r_peer' = [r_peer EXCEPT !.blocks = @ + 1,
                                                  !.bf_msgs = Append(@, MsgBlock(body))]
             \/ /\ r_wire' = r_wire \o WireMsg(BLOCK_FETCH, MsgBatchDone)
                /\ r_peer' = [r_peer EXCEPT !.bf = "idle", !.answered = @ + 1,
                                          !.bf_msgs = Append(@, MsgBatchDone)]
             \/ /\ r_peer.noise < MaxNoise
                /\ r_wire' = r_wire \o WireMsg(BLOCK_FETCH, L(<<U(9)>>))
                /\ r_peer' = [r_peer EXCEPT !.noise = @ + 1,
                                          !.bf_msgs = Append(@, L(<<U(9)>>))]
    /\ UNCHANGED <<r_conn, r_connected, r_version, r_writer, r_eof, r_sent, r_demux, r_bufs,
                   r_task, r_calls, r_reply, r_routed, r_closed>>
    /\ UNCHANGED refOthers

\* the relay writes a frame nobody asked for
RPeerNoise ==
    /\ r_conn = "up"
    /\ r_writer = "open"
    /\ ~r_eof
    /\ r_wire = <<>>
    /\ r_peer.noise < MaxNoise
    /\ \E fs \in NoiseMsgs : r_wire' = r_wire \o fs
    /\ r_peer' = [r_peer EXCEPT !.noise = @ + 1]
    /\ UNCHANGED <<r_conn, r_connected, r_version, r_writer, r_eof, r_sent, r_demux, r_bufs,
                   r_task, r_calls, r_reply, r_routed, r_closed>>
    /\ UNCHANGED refOthers

\* the relay closes the socket
RPeerClose ==
    /\ r_conn \in {"hs_wait", "up"}
    /\ r_writer = "open"
    /\ ~r_eof
    /\ r_eof' = TRUE
    /\ UNCHANGED <<r_conn, r_connected, r_version, r_writer, r_wire, r_sent, r_demux, r_bufs,
                   r_task, r_calls, r_reply, r_routed, r_closed, r_peer>>
    /\ UNCHANGED refOthers

\* _handle_keep_alive(seg): the frames it writes, for each outcome of the decode
handle_keep_alive(seg, now) ==
    {IF r.ok /\ r.val.k = "list" /\ Len(r.val.v) >= 2 /\ IsU(r.val.v[1], 0)
     THEN send_protocol(KEEP_ALIVE, keep_alive_response(r.val.v[2]), now)
     ELSE <<>> : r \in cbor_loads(seg.payload)}

\* one iteration of _demux_loop with a segment to read
RDemuxStep ==
    /\ r_demux = "running"
    /\ r_connected
    /\ r_wire # <<>>
    /\ LET f == Head(r_wire)
           seg == MuxSegment_decode(f, f.payload)
           proto_id == seg.protocol_id
       IN  /\ r_wire' = Tail(r_wire)
           /\ r_routed' = Append(r_routed, seg)
           /\ IF proto_id \in DOMAIN r_bufs
              THEN /\ r_bufs' = [r_bufs EXCEPT ![proto_id] = Append(@, seg)]
                   /\ UNCHANGED r_sent
              ELSE IF proto_id = KEEP_ALIVE
              THEN /\ \E now \in ClockReadings :
                         \E fs \in handle_keep_alive(seg, now) : r_sent' = r_sent \o fs
                   /\ UNCHANGED r_bufs
              ELSE \* logger.warning("Unexpected protocol ..., ignoring segment")
                   UNCHANGED <<r_bufs, r_sent>>
    /\ UNCHANGED <<r_conn, r_connected, r_version, r_writer, r_eof, r_demux, r_task, r_calls,
                   r_reply, r_closed, r_peer>>
    /\ UNCHANGED refOthers

\* _demux_loop ends: _read_segment hits EOF (IncompleteReadError) or reads
\* nothing for PROTOCOL_SDU_TIMEOUT (caught by "except Exception")
RDemuxStop ==
    /\ r_demux = "running"
    /\ r_connected
    /\ r_wire = <<>>
    /\ r_demux' = "done"
    /\ r_connected' = FALSE
    /\ r_closed' = IF r_eof THEN "eof" ELSE "error"
    /\ r_task' = IF r_task.op # "idle" /\ r_eof /\ r_bufs[r_task.proto] = <<>>
                 THEN [r_task EXCEPT !.closed_during = TRUE] ELSE r_task
    /\ UNCHANGED <<r_conn, r_version, r_writer, r_wire, r_eof, r_sent, r_bufs, r_calls,
                   r_reply, r_routed, r_peer>>
    /\ UNCHANGED refOthers

\* disconnect(), called while _connected
RDisconnect ==
    /\ r_conn \in {"up", "failed"}
    /\ r_connected
    /\ r_demux' = IF r_demux = "running" THEN "cancelled" ELSE r_demux
    /\ r_writer' = "closed"
    /\ r_connected' = FALSE
    /\ r_closed' = "disconnect"
    /\ r_task' = IF r_task.op # "idle" /\ r_bufs[r_task.proto] = <<>>
                 THEN [r_task EXCEPT !.closed_during = TRUE] ELSE r_task
    /\ UNCHANGED <<r_conn, r_version, r_wire, r_eof, r_sent, r_bufs, r_calls, r_reply,
                   r_routed, r_peer>>
    /\ UNCHANGED refOthers

\* the application calls _recv_protocol(protocol_id)
RRecvStart(protocol_id) ==
    /\ r_conn = "up"
    /\ r_task = Idle
    /\ RefOps < MaxRefOps
    /\ r_task' = [op |-> "recv", proto |-> protocol_id,
                  closed_at_start |-> r_closed \in {"disconnect", "eof"},
                  closed_during |-> FALSE]
    /\ UNCHANGED <<r_conn, r_connected, r_version, r_writer, r_wire, r_eof, r_sent, r_demux,
                   r_bufs, r_calls, r_reply, r_routed, r_closed, r_peer>>
    /\ UNCHANGED refOthers

\* _recv_protocol: queue.get() returns the next segment
RRecvGet ==
    /\ r_task.op = "recv"
    /\ r_bufs[r_task.proto] # <<>>
    /\ LET seg == Head(r_bufs[r_task.proto])
       IN  /\ r_bufs' = [r_bufs EXCEPT ![r_task.proto] = Tail(@)]
           /\ Finish("ok", seg.payload, <<>>, <<seg.payload>>)
    /\ UNCHANGED <<r_conn, r_connected, r_version, r_writer, r_wire, r_eof, r_sent, r_demux,
                   r_reply, r_routed, r_closed, r_peer>>
    /\ UNCHANGED refOthers

\* _recv_protocol: wait_for(queue.get(), timeout) times out: the queue is
\* empty and the demultiplexer has nothing to route
RRecvTimeout ==
    /\ r_task.op \in {"recv", "fetch_range"}
    /\ r_bufs[r_task.proto] = <<>>
    /\ r_demux # "running" \/ r_wire = <<>>
    /\ UNCHANGED r_bufs
    /\ Finish("TimeoutError", NoBytes, <<>>, IF r_task.op = "recv" THEN <<>> ELSE r_task.read)
    /\ UNCHANGED <<r_conn, r_connected, r_version, r_writer, r_wire, r_eof, r_sent, r_demux,
                   r_reply, r_routed, r_closed, r_peer>>
    /\ UNCHANGED refOthers

\* fetch_block_range(point_from, point_to) up to its first _recv_protocol
RFetchRangeStart ==
    /\ r_conn = "up"
    /\ r_task = Idle
    /\ RefOps < MaxRefOps
    /\ r_writer = "open"
    /\ ~r_eof
    /\ \E now \in ClockReadings :
          r_sent' = r_sent \o send_protocol(BLOCK_FETCH,
                                            request_range(Point(1, "h1"), Point(2, "h2")), now)
    /\ r_task' = [op |-> "fetch_range", proto |-> BLOCK_FETCH, st |-> "first",
                  blocks |-> <<>>, read |-> <<>>,
                  closed_at_start |-> r_closed \in {"disconnect", "eof"},
                  closed_during |-> FALSE]
    /\ UNCHANGED <<r_conn, r_connected, r_version, r_writer, r_wire, r_eof, r_demux, r_bufs,
                   r_calls, r_reply, r_routed, r_closed, r_peer>>
    /\ UNCHANGED refOthers

\* fetch_block_range: one _recv_protocol returns and its payload is handled
RFetchRangeRecv ==
    /\ r_task.op = "fetch_range"
    /\ r_bufs[BLOCK_FETCH] # <<>>
    /\ LET seg == Head(r_bufs[BLOCK_FETCH])
           read == Append(r_task.read, seg.payload)
       IN  /\ r_bufs' = [r_bufs EXCEPT ![BLOCK_FETCH] = Tail(@)]
           /\ \E response \in bf_decode_response(seg.payload) :
                 IF response.type = "error"
                 THEN Finish(response.err, NoBytes, <<>>, read)
                 ELSE IF r_task.st = "first"
                 THEN IF response.type = "no_blocks" THEN Finish("ok", NoBytes, <<>>, read)
                      ELSE IF response.type # "start_batch"
                      THEN Finish("ok", NoBytes, <<>>, read)
                      ELSE /\ r_task' = [r_task EXCEPT !.st = "streaming", !.read = read]
                           /\ UNCHANGED r_calls
                 ELSE IF response.type = "block"
                      THEN /\ r_task' = [r_task EXCEPT
                                            !.blocks = Append(@, parse_block(response.block_body)),
                                            !.read = read]
                           /\ UNCHANGED r_calls
                      ELSE IF response.type = "batch_done"
                      THEN Finish("ok", NoBytes, r_task.blocks, read)
                      ELSE Finish("ok", NoBytes, r_task.blocks, read)
    /\ UNCHANGED <<r_conn, r_connected, r_version, r_writer, r_wire, r_eof, r_sent, r_demux,
                   r_reply, r_routed, r_closed, r_peer>>
    /\ UNCHANGED refOthers

RefNext ==
    \/ RConnectFail
    \/ RConnectSend
    \/ RConnectRecv
    \/ RConnectNoReply
    \/ RPeerFirst
    \/ RPeerBlockFetch
    \/ RPeerNoise
    \/ RPeerClose
    \/ RDemuxStep
    \/ RDemuxStop
    \/ RDisconnect
    \/ \E p \in {CHAIN_SYNC, BLOCK_FETCH, KEEP_ALIVE} : RRecvStart(p)
    \/ RRecvGet
    \/ RRecvTimeout
    \/ RFetchRangeStart
    \/ RFetchRangeRecv

-----------------------------------------------------------------------------
(* lsview protocol drivers: ChainSync and BlockFetch messages *)

\* Point.to_cbor of the point with the blake2b-256 hash of header bytes hb
HeaderHash(hb) == [k |-> "blake2b", v |-> hb.v]

\* ChainSyncMsg.find_intersect(points)
cs_find_intersect(points) == cbor_dumps(L(<<U(4), L(points)>>))

\* ChainSyncMsg.request_next(), ChainSyncMsg.done()
cs_request_next == cbor_dumps(L(<<U(0)>>))
cs_done == cbor_dumps(L(<<U(7)>>))

\* lsview BlockFetchMsg.request_range, BlockFetchMsg.client_done
ls_request_range(point_from, point_to) == cbor_dumps(L(<<U(0), point_from, point_to>>))
ls_client_done == cbor_dumps(L(<<U(1)>>))

\* ChainSyncMsg.decode on a decoded msg
cs_decode_msg(msg) ==
    IF msg.k # "list" \/ Len(msg.v) = 0 THEN Err("ValueError")
    ELSE IF IsU(msg.v[1], 1) THEN [type |-> "await_reply"]
    ELSE IF IsU(msg.v[1], 2)
         THEN IF Len(msg.v) < 3 THEN Err("IndexError")
              ELSE [type |-> "roll_forward", header |-> msg.v[2], tip |-> msg.v[3]]
    ELSE IF IsU(msg.v[1], 3)
         THEN IF Len(msg.v) < 3 THEN Err("IndexError")
              ELSE [type |-> "roll_backward", point |-> msg.v[2], tip |-> msg.v[3]]
    ELSE IF IsU(msg.v[1], 5)
         THEN IF Len(msg.v) < 3 THEN Err("IndexError")
              ELSE [type |-> "intersect_found", point |-> msg.v[2], tip |-> msg.v[3]]
    ELSE IF IsU(msg.v[1], 6)
         THEN IF Len(msg.v) < 2 THEN Err("IndexError")
              ELSE [type |-> "intersect_not_found", tip |-> msg.v[2]]
    ELSE [type |-> "unknown", raw |-> msg]

\* ChainSyncMsg.decode(msg_bytes): the possible outcomes
cs_decode(msg_bytes) ==
    {IF r.ok THEN cs_decode_msg(r.val) ELSE Err(r.err) : r \in cbor_loads(msg_bytes)}

\* lsview BlockFetchMsg.decode on a decoded msg
ls_bf_decode_msg(msg) ==
    IF msg.k # "list" \/ Len(msg.v) = 0 THEN Err("ValueError")
    ELSE IF IsU(msg.v[1], 2) THEN [type |-> "start_batch"]
    ELSE IF IsU(msg.v[1], 3) THEN [type |-> "no_blocks"]
    ELSE IF IsU(msg.v[1], 4)
         THEN IF Len(msg.v) < 2 THEN Err("IndexError")
              ELSE [type |-> "block", block_body |-> msg.v[2]]
    ELSE IF IsU(msg.v[1], 5) THEN [type |-> "batch_done"]
    ELSE [type |-> "unknown", raw |-> msg]

\* lsview BlockFetchMsg.decode(msg_bytes): the possible outcomes
ls_bf_decode(msg_bytes) ==
    {IF r.ok THEN ls_bf_decode_msg(r.val) ELSE Err(r.err) : r \in cbor_loads(msg_bytes)}

\* _unwrap_header_bytes(header_obj): the header bytes, none for ValueError
unwrap_header_bytes(header_obj) ==
    IF header_obj.k = "list" /\ Len(header_obj.v) = 2 /\ IsBytes(header_obj.v[2])
    THEN {header_obj.v[2]}
    ELSE IF header_obj.k = "tag" /\ IsBytes(header_obj.v) THEN {header_obj.v}
    ELSE {}

\* header_point(header_obj): the possible outcomes
header_point(header_obj) ==
    IF unwrap_header_bytes(header_obj) = {} THEN {Err("ValueError")}
    ELSE LET hb == CHOOSE h \in unwrap_header_bytes(header_obj) : TRUE
         IN  {IF ~r.ok THEN Err(r.err)
              ELSE IF /\ r.val.k = "list"
                      /\ Len(r.val.v) > 0
                      /\ r.val.v[1].k = "list"
                      /\ Len(r.val.v[1].v) > 1
                      /\ IsInt(r.val.v[1].v[2])
              THEN [type |-> "point", point |-> Point(r.val.v[1].v[2].v, HeaderHash(hb))]
              ELSE Err("ValueError") : r \in cbor_loads(AsBytes(hb))}

-----------------------------------------------------------------------------
(* lsview block parser *)

\* {int(k): v for k, v in d.items() if isinstance(k, int)}
IntKeyed(d) ==
    LET items == DictItems(d)
        IsIntKey(e) == IsInt(e.key)
    IN  Map(SelectSeq(items, IsIntKey))

EmptyDict == Map(<<>>)

\* _extract_metadata_map on an aux value that is no byte string
extract_metadata_map_of(aux) ==
    IF aux.k = "list" /\ Len(aux.v) > 0
    THEN IF aux.v[1].k = "map" THEN IntKeyed(aux.v[1]) ELSE EmptyDict
    ELSE IF aux.k = "map" THEN IntKeyed(aux)
    ELSE EmptyDict

\* _extract_metadata_map(aux), aux an optional value: the possible outcomes
extract_metadata_map(aux) ==
    IF aux = None THEN {EmptyDict}
    ELSE LET a == CHOOSE x \in aux : TRUE
         IN  IF IsBytes(a)
             THEN {IF r.ok THEN extract_metadata_map_of(r.val) ELSE EmptyDict :
                      r \in cbor_loads(AsBytes(a))}
             ELSE {extract_metadata_map_of(a)}

\* _unwrap_cbor(obj): the possible outcomes
unwrap_cbor(obj) ==
    IF IsBytes(obj)
    THEN {IF r.ok THEN r.val ELSE obj : r \in cbor_loads(AsBytes(obj))}
    ELSE IF obj.k = "tag"
    THEN IF IsBytes(obj.v)
         THEN {IF r.ok THEN r.val ELSE obj.v : r \in cbor_loads(AsBytes(obj.v))}
         ELSE {obj.v}
    ELSE {obj}

\* parse_block from "tx_bodies = []" on, for the block found
parse_block_of(era, block0) ==
    LET block == IF block0.k = "list" /\ Len(block0.v) = 1 THEN block0.v[1] ELSE block0
        isList == block.k = "list" /\ Len(block.v) >= 2
        tx_bodies == IF isList /\ block.v[2].k = "list" THEN block.v[2].v ELSE <<>>
        aux_map == IF isList /\ Len(block.v) >= 4 /\ block.v[4].k = "map" THEN block.v[4]
                   ELSE IF isList /\ Len(block.v) >= 3 /\ block.v[3].k = "map" THEN block.v[3]
                   ELSE EmptyDict
        Aux(i) == IF MapHas(aux_map, U(i)) THEN {MapGet(aux_map, U(i))} ELSE None
        \* one metadata map per transaction, for each outcome of the decodes
        mds == {f \in [1..Len(tx_bodies) -> UNION {extract_metadata_map(Aux(i - 1)) :
                                                       i \in 1..Len(tx_bodies)}] :
                    \A i \in 1..Len(tx_bodies) : f[i] \in extract_metadata_map(Aux(i - 1))}
    IN  {[type |-> "block", era |-> era,
          txs |-> [i \in 1..Len(tx_bodies) |-> [index |-> i - 1, metadata |-> f[i]]],
          tx_bodies |-> tx_bodies] : f \in mds}

\* lsview parse_block on the decoded and unwrapped obj
parse_block_obj(obj) ==
    IF obj.k = "list" /\ Len(obj.v) > 0
    THEN IF IsInt(obj.v[1])
         THEN IF Len(obj.v) > 1
              THEN UNION {parse_block_of({obj.v[1].v}, b) : b \in unwrap_cbor(obj.v[2])}
              ELSE {Err("ValueError")}
         ELSE parse_block_of(None, obj)
    ELSE {Err("ValueError")}

\* lsview parse_block(block_body_cbor): the possible outcomes
ls_parse_block(block_body_cbor) ==
    UNION {IF r.ok THEN UNION {parse_block_obj(o) : o \in unwrap_cbor(r.val)}
           ELSE {Err(r.err)} : r \in cbor_loads(block_body_cbor)}

\* iter_label(block, label)
iter_label(block, label) ==
    LET Has(tx) == MapHas(tx.metadata, U(label))
        txs == SelectSeq(block.txs, Has)
    IN  [i \in 1..Len(txs) |-> MapGet(txs[i].metadata, U(label))]

-----------------------------------------------------------------------------
(* lsview scrolls/cip25.py: assets, pages and the manifest.  An optional   *)
(* Python value is None or the set of the one value.                       *)

CIP25_LABEL == 721

\* bool(x) for a decoded item
TruthyVal(x) ==
    CASE x.k = "uint" -> x.v # 0
      [] x.k = "bool" -> x.v
      [] x.k \in {"bytes", "ebytes", "sbytes", "text", "hextext", "hashtext"} -> x.n > 0
      [] x.k \in {"list", "map"} -> Len(x.v) > 0
      [] OTHER -> TRUE

Truthy(opt) == opt # None /\ \A x \in opt : TruthyVal(x)

\* a or b
PyOr(a, b) == IF Truthy(a) THEN a ELSE b

\* fields.get(name)
FieldGet(fields, name) ==
    IF MapHas(fields, Txt(name)) THEN {MapGet(fields, Txt(name))} ELSE None

\* s.lower() for the policy spellings in use
Lower(s) == CASE s = "AA" -> "aa" [] s = "BB" -> "bb" [] OTHER -> s

\* int(v) for the digit strings in use; no value when not v.isdigit()
IntOfDigits(s) == CASE s = "1" -> {1} [] s = "2" -> {2} [] s = "3" -> {3} [] OTHER -> {}

\* _as_int(v)
as_int(opt) ==
    IF opt = None THEN None
    ELSE LET v == CHOOSE x \in opt : TRUE
         IN  IF v.k = "uint" THEN {v.v}
             ELSE IF v.k = "bool" THEN {IF v.v THEN 1 ELSE 0}
             ELSE IF v.k = "text" THEN IntOfDigits(v.v)
             ELSE None

\* _as_str(v): a Python str is kept as the text item that spells it
as_str(opt) ==
    IF opt = None THEN None
    ELSE LET v == CHOOSE x \in opt : TRUE
         IN  IF IsStr(v) THEN {v} ELSE {[k |-> "strof", v |-> v, n |-> 1]}

\* normalize_policy_key(k): bytes give k.hex(), str gives k.lower()
normalize_policy_key(pk) ==
    IF pk.k = "bytes" THEN {Lower(pk.v)}
    ELSE IF pk.k = "text" THEN {Lower(pk.v)}
    ELSE IF IsStr(pk) THEN {"other"}
    ELSE None

\* normalize_asset_key(k): bytes are decoded as printable ASCII, str is kept
normalize_asset_key(ak) ==
    IF ak.k \in {"bytes", "text"} THEN ak.v ELSE "other"

Cip25Asset(policy_id, asset_name, fields) ==
    [policy_id |-> policy_id, asset_name |-> asset_name, fields |-> fields]

\* the inner loop of extract_cip25_assets over pv.items()
assets_of(policy_hex, pv) ==
    LET items == DictItems(pv)
    IN  [i \in 1..Len(items) |->
            Cip25Asset(policy_hex, normalize_asset_key(items[i].key),
                       IF items[i].val.k = "map" THEN items[i].val
                       ELSE Map(<<Pair(Txt("value"), items[i].val)>>))]

RECURSIVE assets_loop(_, _)
\* the outer loop of extract_cip25_assets over metadata_721.items()
assets_loop(items, wanted) ==
    IF items = <<>> THEN <<>>
    ELSE LET pk == Head(items).key
             pv == Head(items).val
             policy_hex == normalize_policy_key(pk)
         IN  (IF policy_hex = None \/ policy_hex # {wanted} \/ pv.k # "map" THEN <<>>
              ELSE assets_of(CHOOSE x \in policy_hex : TRUE, pv))
             \o assets_loop(Tail(items), wanted)

\* extract_cip25_assets(metadata_721, wanted_policy_hex)
extract_cip25_assets(metadata_721, wanted_policy_hex) ==
    IF metadata_721.k # "map" THEN <<>>
    ELSE assets_loop(DictItems(metadata_721), Lower(wanted_policy_hex))

ManifestFields == {"codec", "content_type", "content-type", "sha256", "sha", "sha256_gz", "sha_gz"}

\* bytes.fromhex(item): the bytes, none when it raises
fromhex(item) ==
    IF item.k = "hextext" /\ item.v.well
    THEN {AsBytes(Seg(item.v.src, item.v.lo, item.v.hi))}
    ELSE {}

RECURSIVE segs_of_list(_)
\* the loop over a payload list
segs_of_list(items) ==
    IF items = <<>> THEN <<>>
    ELSE (IF IsBytes(Head(items)) THEN <<AsBytes(Head(items))>>
          ELSE IF IsStr(Head(items))
          THEN (IF fromhex(Head(items)) = {} THEN <<>>
                ELSE <<CHOOSE b \in fromhex(Head(items)) : TRUE>>)
          ELSE <<>>)
         \o segs_of_list(Tail(items))

\* the segments classify_assets takes from a payload
payload_segments(payload) ==
    IF payload = None THEN <<>>
    ELSE LET pl == CHOOSE x \in payload : TRUE
         IN  IF pl.k = "list" THEN segs_of_list(pl.v)
             ELSE IF IsStr(pl) THEN segs_of_list(<<pl>>)
             ELSE <<>>

\* classify_assets: is asset a the manifest
is_manifest(a, manifest_asset) ==
    IF manifest_asset # None /\ manifest_asset # {""} THEN a.asset_name \in manifest_asset
    ELSE IF manifest_asset = None THEN \E f \in ManifestFields : MapHas(a.fields, Txt(f))
    ELSE FALSE

Cip25Manifest(a) ==
    [asset |-> a,
     codec |-> as_str(FieldGet(a.fields, "codec")),
     content_type |-> as_str(PyOr(FieldGet(a.fields, "content_type"),
                                  FieldGet(a.fields, "content-type"))),
     total_pages |-> as_int(PyOr(PyOr(FieldGet(a.fields, "n"), FieldGet(a.fields, "pages")),
                                 FieldGet(a.fields, "total_pages"))),
     sha256 |-> as_str(PyOr(FieldGet(a.fields, "sha256"), FieldGet(a.fields, "sha"))),
     sha256_gz |-> as_str(PyOr(FieldGet(a.fields, "sha256_gz"), FieldGet(a.fields, "sha_gz")))]

Cip25Page(a) ==
    [asset |-> a,
     index |-> as_int(PyOr(PyOr(FieldGet(a.fields, "i"), FieldGet(a.fields, "index")),
                           FieldGet(a.fields, "page"))),
     total |-> as_int(PyOr(PyOr(FieldGet(a.fields, "n"), FieldGet(a.fields, "total")),
                           FieldGet(a.fields, "pages"))),
     payload_segments |-> payload_segments(PyOr(PyOr(FieldGet(a.fields, "payload"),
                                                     FieldGet(a.fields, "segments")),
                                                FieldGet(a.fields, "seg")))]

RECURSIVE classify_loop(_, _, _, _)
\* the loop of classify_assets
classify_loop(assets, manifest_asset, pages, manifest) ==
    IF assets = <<>> THEN [pages |-> pages, manifest |-> manifest]
    ELSE IF is_manifest(Head(assets), manifest_asset)
    THEN classify_loop(Tail(assets), manifest_asset, pages, {Cip25Manifest(Head(assets))})
    ELSE classify_loop(Tail(assets), manifest_asset, Append(pages, Cip25Page(Head(assets))),
                       manifest)

\* classify_assets(assets, manifest_asset)
classify_assets(assets, manifest_asset) == classify_loop(assets, manifest_asset, <<>>, None)

-----------------------------------------------------------------------------
(* lsview scrolls/reconstruct.py.  Page data are spans of named data; the  *)
(* data named in GzipData is a gzip stream of GzLen bytes that inflates to *)
(* the PlainLen bytes of the data it names.  SHA-256 is collision free: a  *)
(* digest is named by the bytes it was taken from.                         *)

GzLen == 2
PlainLen == 2
GzipData == {"gzA"}
Inflated(id) == BytesOf([k |-> "raw", v |-> "A"], PlainLen)

\* byte off of the data named id
ByteVal(id, off) ==
    IF id \in GzipData THEN (CASE off = 0 -> 31 [] off = 1 -> 139 [] OTHER -> 0) ELSE 65

\* b[i] for 0 <= i < len(b), for page data
BAt(b, i) ==
    LET one == BSlice(b, i, i + 1)
    IN  IF Head(one).src.k = "raw" THEN ByteVal(Head(one).src.v, Head(one).lo) ELSE 0

\* s.lower() of a str
str_lower(s) ==
    CASE s.k = "hashtext" -> DigestTxt(s.v.sha256, FALSE)
      [] s.k = "text" -> TxtN(Lower(s.v), s.n)
      [] OTHER -> s

\* sha256_hex(b)
sha256_hex(b) == DigestTxt(b, FALSE)

\* the key of sort_pages: names are ordered as Python orders the str
NameOrd(s) ==
    CASE s = "M" -> 0 [] s = "P1" -> 1 [] s = "P2" -> 2 [] s = "P3" -> 3 [] s = "P4" -> 4
      [] s = "P5" -> 5 [] OTHER -> 9
PageKey(p) ==
    IF p.index # None THEN <<0, CHOOSE i \in p.index : TRUE>>
    ELSE <<1, NameOrd(p.asset.asset_name)>>
KeyLess(a, b) == a[1] < b[1] \/ (a[1] = b[1] /\ a[2] < b[2])

RECURSIVE sort_pages(_)
\* sort_pages(pages): sorted() is stable
sort_pages(pages) ==
    IF pages = <<>> THEN <<>>
    ELSE LET n == Len(pages)
             rest == sort_pages(SubSeq(pages, 1, n - 1))
             p == pages[n]
             \* p goes after every page whose key is not greater
             at == Cardinality({i \in 1..Len(rest) : ~KeyLess(PageKey(p), PageKey(rest[i]))})
         IN  SubSeq(rest, 1, at) \o <<p>> \o SubSeq(rest, at + 1, Len(rest))

RECURSIVE reconstruct_loop(_)
reconstruct_loop(ordered) ==
    IF ordered = <<>> THEN NoBytes
    ELSE BCat(BJoin(Head(ordered).payload_segments), reconstruct_loop(Tail(ordered)))

\* reconstruct_pages(pages)
reconstruct_pages(pages) == reconstruct_loop(sort_pages(pages))

RECURSIVE gzip_decompress(_)
\* gzip.decompress(b): the bytes, none when it raises
gzip_decompress(b) ==
    IF b = <<>> THEN {NoBytes}
    ELSE LET h == Head(b)
         IN  IF h.src.k = "raw" /\ h.src.v \in GzipData /\ h.lo = 0 /\ h.hi = GzLen
             THEN {BCat(Inflated(h.src.v), r) : r \in gzip_decompress(Tail(b))}
             ELSE {}

\* maybe_gunzip(b, codec): (decoded, codec_used), or the error raised
maybe_gunzip(b, codec) ==
    LET inflate == IF gzip_decompress(b) = {} THEN [ok |-> FALSE, err |-> "BadGzipFile"]
                   ELSE [ok |-> TRUE, decoded |-> CHOOSE x \in gzip_decompress(b) : TRUE,
                         codec_used |-> {Txt("gzip")}]
    IN  IF codec = None
        THEN IF BLen(b) >= 2 /\ BAt(b, 0) = 31 /\ BAt(b, 1) = 139
             THEN inflate
             ELSE [ok |-> TRUE, decoded |-> b, codec_used |-> None]
        ELSE IF str_lower(CHOOSE c \in codec : TRUE) = Txt("gzip")
        THEN inflate
        ELSE [ok |-> TRUE, decoded |-> b, codec_used |-> codec]

\* reconstruct_cip25(pages, manifest, out_name)
reconstruct_cip25(pages, manifest, out_name) ==
    LET gz_bytes == reconstruct_pages(pages)
        m == CHOOSE x \in manifest : TRUE
        codec == IF manifest # None THEN m.codec ELSE None
        content_type == IF manifest # None THEN m.content_type ELSE None
        g == maybe_gunzip(gz_bytes, codec)
    IN  IF ~g.ok THEN Err(g.err)
        ELSE IF manifest # None /\ Truthy(m.sha256_gz)
                /\ sha256_hex(gz_bytes) # str_lower(CHOOSE x \in m.sha256_gz : TRUE)
        THEN Err("ValueError: gzip sha256 mismatch")
        ELSE IF manifest # None /\ Truthy(m.sha256)
                /\ sha256_hex(g.decoded) # str_lower(CHOOSE x \in m.sha256 : TRUE)
        THEN Err("ValueError: decoded sha256 mismatch")
        ELSE [type |-> "file", filename |-> out_name, content_type |-> content_type,
              codec |-> g.codec_used, raw_bytes |-> g.decoded,
              sha256 |-> sha256_hex(g.decoded)]

-----------------------------------------------------------------------------
(* lsview cmd_reconstruct_cip25: the scan over ChainSync and BlockFetch.   *)
(* The relay's frames arrive whole, in the layout the connection reads;    *)
(* what a recv returns is drawn from the frames a relay can write.         *)

\* args.max_blocks, args.timeout (in clock ticks)
MaxScanBlocks == 3
IdleTimeout == 2
\* replies other than roll-forward one stream reads; MsgBlock per batch
MaxScNoise == 2
MaxBatch == 2

WantedPolicy == "aa"
OutName == "out.bin"

\* the scroll's bytes, and other bytes
DataA == BytesOf([k |-> "raw", v |-> "A"], PlainLen)
DataB == BytesOf([k |-> "raw", v |-> "B"], PlainLen)

StartPoint == Point(1, "h0")
Tip == L(<<Point(9, "h9"), U(9)>>)

\* a roll-forward header [era, header bytes] for the block at slot
Hdr(slot) == L(<<U(1), Enc(L(<<L(<<U(0), U(slot)>>)>>))>>)

\* a block [era, [header, tx_bodies, witnesses, aux]] of one transaction whose
\* metadata is {721: {policy: assets}}, wrapped as the relay sends it
MetaBlock(assets) ==
    Tag(24, Enc(L(<<U(6), L(<<L(<<>>), L(<<Map(<<>>)>>), L(<<>>),
        Map(<<Pair(U(0), Map(<<Pair(U(CIP25_LABEL),
                                     Map(<<Pair(Txt("AA"), Map(assets))>>))>>))>>)>>)>>)))

AssetM(n, sha, sha_gz) ==
    Pair(Txt("M"), Map(<<Pair(Txt("n"), U(n)), Pair(Txt("sha256"), sha),
                         Pair(Txt("sha256_gz"), sha_gz)>>))
AssetP(name, i, seg) ==
    Pair(Txt(name), Map(<<Pair(Txt("i"), U(i)), Pair(Txt("payload"), L(<<seg>>))>>))

\* the blocks on the chain: a manifest of two pages with the right digests
\* next to page 1, a manifest of one page with a wrong sha256, the two pages,
\* and a block without metadata
BkM == MetaBlock(<<AssetM(2, DigestTxt(DataA, TRUE), DigestTxt(DataA, FALSE)),
                   AssetP("P1", 1, Seg("A", 0, 1))>>)
BkMx == MetaBlock(<<AssetM(1, DigestTxt(DataB, FALSE), DigestTxt(DataA, FALSE))>>)
BkP1 == MetaBlock(<<AssetP("P1", 1, Seg("A", 0, 1))>>)
BkP2 == MetaBlock(<<AssetP("P2", 2, HexTxt("A", 1, PlainLen, TRUE))>>)
BkNone == Tag(24, Enc(L(<<U(6), L(<<L(<<>>), L(<<>>), L(<<>>), Map(<<>>)>>)>>)))
ScBlocks == {BkM, BkMx, BkP1, BkP2, BkNone}

\* the messages a relay can send on ChainSync and on BlockFetch
CsReplies ==
    {L(<<U(1)>>), L(<<U(2), Hdr(5), Tip>>), L(<<U(2), U(0), Tip>>),
     L(<<U(3), StartPoint, Tip>>), L(<<U(5), StartPoint, Tip>>), L(<<U(6), Tip>>),
     L(<<U(9)>>)}
BfReplies ==
    {MsgStartBatch, MsgNoBlocks, MsgBatchDone, L(<<U(9)>>)} \cup {MsgBlock(b) : b \in ScBlocks}

\* what conn.recv reads: the protocol of the frame and its payload
ScFrames ==
    {[p |-> CHAIN_SYNC, payload |-> cbor_dumps(m)] : m \in CsReplies}
    \cup {[p |-> BLOCK_FETCH, payload |-> cbor_dumps(m)] : m \in BfReplies}

\* the catalog entries: without an expected sha256, and with the scroll's
Descriptors == {None, {DigestTxt(DataA, FALSE)}}

\* conn.send(protocol, cbor_payload): the frame written
ls_send(protocol, cbor_payload) == mux_encode(protocol, cbor_payload, TRUE, 0)

\* the command's state, as one record
ScCur ==
    [pc |-> sc_pc, open |-> sc_open, sent |-> sc_sent, yielded |-> sc_yielded,
     pages |-> sc_pages, manifest |-> sc_manifest, fetch |-> sc_fetch, file |-> sc_file,
     result |-> sc_result]

\* an exception leaves the try block: finally closes the connection
ScRaise(s, e) == [s EXCEPT !.pc = "end", !.open = FALSE, !.result = e]

\* cli.py 148-165: bf.done(), cs.done(), close, then reconstruct and write
ScAfterLoop(s) ==
    LET t == [s EXCEPT !.pc = "end", !.open = FALSE,
                       !.sent = @ \o <<ls_send(BLOCK_FETCH, ls_client_done),
                                       ls_send(CHAIN_SYNC, cs_done)>>]
        out == reconstruct_cip25(s.pages, s.manifest, OutName)
    IN  IF s.pages = <<>> THEN [t EXCEPT !.result = "SystemExit: no pages"]
        ELSE IF out.type = "error" THEN [t EXCEPT !.result = out.err]
        ELSE [t EXCEPT !.file = {out.raw_bytes}, !.result = "ok"]

\* stream_headers is resumed, or has handled a reply that ends the inner
\* loop: the test of "while yielded < max_headers" and the request_next
ScNextHeader(s) ==
    IF s.yielded < MaxScanBlocks
    THEN [s EXCEPT !.pc = "stream", !.sent = Append(@, ls_send(CHAIN_SYNC, cs_request_next))]
    ELSE ScAfterLoop(s)

RECURSIVE ScLabelLoop(_, _, _)
\* cli.py 133-141: the loop over iter_label(block, 721)
ScLabelLoop(mds, pages, manifest) ==
    IF mds = <<>> THEN [pages |-> pages, manifest |-> manifest]
    ELSE LET assets == extract_cip25_assets(Head(mds), WantedPolicy)
             c == classify_assets(assets, None)
         IN  IF assets = <<>> THEN ScLabelLoop(Tail(mds), pages, manifest)
             ELSE ScLabelLoop(Tail(mds), pages \o c.pages,
                              IF c.manifest # None THEN c.manifest ELSE manifest)

\* an early stop that wants more names than the manifest declares
early_stop_strict(pages, manifest) ==
    /\ manifest # None
    /\ LET m == CHOOSE x \in manifest : TRUE
       IN  /\ m.total_pages # None
           /\ m.total_pages # {0}
           /\ Cardinality({pages[i].asset.asset_name : i \in 1..Len(pages)})
                  > (CHOOSE n \in m.total_pages : TRUE)

\* cli.py 143-146: the early stop
early_stop(pages, manifest) ==
    /\ manifest # None
    /\ LET m == CHOOSE x \in manifest : TRUE
       IN  /\ m.total_pages # None
           /\ m.total_pages # {0}
           /\ Cardinality({pages[i].asset.asset_name : i \in 1..Len(pages)})
                  >= (CHOOSE n \in m.total_pages : TRUE)

\* cli.py 128-146 for one parsed block
ScBlock(s, block) ==
    LET c == ScLabelLoop(iter_label(block, CIP25_LABEL), s.pages, s.manifest)
        t == [s EXCEPT !.pages = c.pages, !.manifest = c.manifest]
    IN  IF early_stop(t.pages, t.manifest) THEN ScAfterLoop(t) ELSE ScNextHeader(t)

\* fetch_block_body has returned body ({} for None): the rest of the loop
\* body, for each outcome of the parse
ScBody(s0, body) ==
    LET s == [s0 EXCEPT !.fetch = [first |-> {}, nblk |-> 0, body |-> body, done |-> TRUE]]
    IN  IF body = None THEN {ScNextHeader(s)}
        ELSE {IF b.type = "error" THEN ScRaise(s, b.err) ELSE ScBlock(s, b) :
                 b \in ls_parse_block(CHOOSE x \in body : TRUE)}

\* stream_headers with an await-reply that ends the inner loop
cs_stream_step_await_breaks(type) ==
    CASE type = "roll_forward" -> "yield"
      [] OTHER -> "break"

\* stream_headers that ends at a roll-backward
cs_stream_step_rollback_returns(type) ==
    CASE type = "await_reply" -> "continue"
      [] type = "roll_forward" -> "yield"
      [] type = "roll_backward" -> "return"
      [] OTHER -> "break"

\* what stream_headers does with a decoded reply
cs_stream_step(type) ==
    CASE type = "await_reply" -> "continue"
      [] type = "roll_forward" -> "yield"
      [] OTHER -> "break"

\* stream_headers has read a frame in its inner loop
ScStreamReply(s, f) ==
    IF f.p # CHAIN_SYNC THEN {ScRaise(s, "ValueError: unexpected protocol")}
    ELSE UNION {
      IF resp.type = "error" THEN {ScRaise(s, resp.err)}
      ELSE IF cs_stream_step(resp.type) = "continue" THEN {s}
      ELSE IF cs_stream_step(resp.type) = "return" THEN {ScAfterLoop(s)}
      ELSE IF cs_stream_step(resp.type) = "yield" /\ resp.type = "roll_forward"
      THEN {IF pt.type = "error" THEN ScRaise(s, pt.err)
            ELSE [s EXCEPT !.yielded = @ + 1, !.pc = "fetch1", !.fetch = NoFetch,
                           !.sent = Append(@, ls_send(BLOCK_FETCH,
                                                      ls_request_range(pt.point, pt.point)))] :
               pt \in header_point(resp.header)}
      ELSE {ScNextHeader(s)} : resp \in cs_decode(f.payload)}

\* a command that goes on whatever find_intersect returned
intersect_ok_any(type) == TRUE

\* find_intersect has read its reply
intersect_ok(type) == type = "intersect_found"

ScIntersectReply(s, f) ==
    IF f.p # CHAIN_SYNC THEN {ScRaise(s, "ValueError: unexpected protocol")}
    ELSE {IF resp.type = "error" THEN ScRaise(s, resp.err)
          ELSE IF ~intersect_ok(resp.type) THEN ScRaise(s, "SystemExit: start point not on chain")
          ELSE ScNextHeader(s) : resp \in cs_decode(f.payload)}

\* a fetch_block_body that returns at start-batch, without reading the batch
ScFetchFirstReturns(s, f) ==
    IF f.p # BLOCK_FETCH THEN {ScRaise(s, "ValueError: unexpected protocol")}
    ELSE UNION {
      IF first.type = "error" THEN {ScRaise(s, first.err)}
      ELSE ScBody(s, None) : first \in ls_bf_decode(f.payload)}

\* a fetch_block_body that returns its first block, without reading on to
\* batch-done
ScFetchStreamFirstBlock(s, f) ==
    IF f.p # BLOCK_FETCH THEN {ScRaise(s, "ValueError: unexpected protocol")}
    ELSE UNION {
      IF resp.type = "error" THEN {ScRaise(s, resp.err)}
      ELSE IF resp.type = "block"
      THEN LET bb == resp.block_body
               body == IF IsBytes(bb) THEN AsBytes(bb) ELSE cbor_dumps(bb)
           IN  ScBody(s, {body})
      ELSE ScBody(s, s.fetch.body) : resp \in ls_bf_decode(f.payload)}

\* fetch_block_body has read its first reply
ScFetchFirst(s, f) ==
    IF f.p # BLOCK_FETCH THEN {ScRaise(s, "ValueError: unexpected protocol")}
    ELSE UNION {
      IF first.type = "error" THEN {ScRaise(s, first.err)}
      ELSE IF first.type = "no_blocks" THEN ScBody(s, None)
      ELSE IF first.type # "start_batch" THEN ScBody(s, None)
      ELSE {[s EXCEPT !.pc = "fetch"]} : first \in ls_bf_decode(f.payload)}

\* fetch_block_body has read a reply in its loop
ScFetchStream(s, f) ==
    IF f.p # BLOCK_FETCH THEN {ScRaise(s, "ValueError: unexpected protocol")}
    ELSE UNION {
      IF resp.type = "error" THEN {ScRaise(s, resp.err)}
      ELSE IF resp.type = "block"
      THEN LET bb == resp.block_body
               body == IF IsBytes(bb) THEN AsBytes(bb) ELSE cbor_dumps(bb)
           IN  {[s EXCEPT !.fetch = [first |-> IF @.nblk = 0 THEN {body} ELSE @.first,
                                     nblk |-> @.nblk + 1, body |-> {body}, done |-> FALSE]]}
      ELSE ScBody(s, s.fetch.body) : resp \in ls_bf_decode(f.payload)}

\* the type of the reply in frame f as protocol p's decoder gives it
ScReplyTypes(p, f) ==
    IF f.p # p THEN {"other protocol"}
    ELSE IF p = CHAIN_SYNC THEN {r.type : r \in cs_decode(f.payload)}
    ELSE {r.type : r \in ls_bf_decode(f.payload)}

ScInit ==
    /\ sc_pc = "start"
    /\ sc_desc \in Descriptors
    /\ sc_open = TRUE
    /\ sc_sent = <<>>
    /\ sc_yielded = 0
    /\ sc_pages = <<>>
    /\ sc_manifest = None
    /\ sc_fetch = NoFetch
    /\ sc_file = None
    /\ sc_result = "running"
    /\ sc_last = NoReply
    /\ sc_noise = 0
    /\ sc_wait = 0
    /\ sc_idle = 0
    \* the codec harness is not running
    /\ cx_phase = "off"
    /\ cx_proto = 0
    /\ cx_len = 0
    /\ cx_now = 0
    /\ cx_ls = NoFrame
    /\ cx_ref = NoFrame
    /\ cx_segs = <<>>
    /\ cx_send = <<>>
    /\ cx_dec = NoFrame
    \* the connection is seen through what send and recv do
    /\ ls_pc = "off"
    /\ ls_writer = FALSE
    /\ ls_negotiated_version = None
    /\ ls_in = <<>>
    /\ ls_skew = FALSE
    /\ ls_eof = FALSE
    /\ ls_out = <<>>
    /\ ls_read = <<>>
    /\ ls_calls = <<>>
    \* no reference client exists
    /\ r_conn = "new"
    /\ r_connected = FALSE
    /\ r_version = None
    /\ r_writer = "none"
    /\ r_wire = <<>>
    /\ r_eof = FALSE
    /\ r_sent = <<>>
    /\ r_demux = "none"
    /\ r_bufs = [p \in BufProtos |-> <<>>]
    /\ r_task = Idle
    /\ r_calls = <<>>
    /\ r_reply = <<>>
    /\ r_routed = <<>>
    /\ r_closed = ""
    /\ r_peer = [bf |-> "idle", first |-> FALSE, blocks |-> 0, answered |-> 0, noise |-> 0,
                 bf_msgs |-> <<>>]
    \* no other front-end is running
    /\ fe_pc = "off"
    /\ fe_tool = ""
    /\ fe_args = <<>>
    /\ fe_data = NoData
    /\ fe_file = None
    /\ fe_out = None
    /\ fe_result = "running"
    /\ fe_log = <<>>
    \* no function harness is running
    /\ pf_pc = "off"
    /\ pf_fn = ""
    /\ pf_in = <<>>
    /\ pf_out = <<>>
    \* no fetch-block command is running
    /\ oc_pc = "off"
    /\ oc_args = <<>>
    /\ oc_cands = <<>>
    /\ oc_tried = <<>>
    /\ oc_conn = None
    /\ oc_closed = <<>>
    /\ oc_sent = <<>>
    /\ oc_fetch = NoFetch
    /\ oc_replies = <<>>
    /\ oc_file = None
    /\ oc_exit = NoExit
    \* the relay of the scan is not modelled
    /\ pr_cs = "off"
    /\ pr_bf = NoBatch
    /\ pr_wire = <<>>
    /\ pr_chain = <<>>
    /\ pr_ptr = 0
    /\ pr_forks = 0
    /\ pr_viol = {}
    \* no retry loop is running
    /\ rt_pc = "off"
    /\ rt_fn = ""
    /\ rt_retries = 0
    /\ rt_i = 0
    /\ rt_last = None
    /\ rt_log = <<>>
    /\ rt_result = None

\* the command's state becomes s
ScSet(s) ==
    /\ sc_pc' = s.pc
    /\ sc_open' = s.open
    /\ sc_sent' = s.sent
    /\ sc_yielded' = s.yielded
    /\ sc_pages' = s.pages
    /\ sc_manifest' = s.manifest
    /\ sc_fetch' = s.fetch
    /\ sc_file' = s.file
    /\ sc_result' = s.result

\* the reply of type ty was read while the command was at sc_pc
ScNote(ty) == sc_last' = [at |-> sc_pc, type |-> ty]

\* cli.py 122: cs.find_intersect sends its request
ScFindIntersect ==
    /\ sc_pc = "start"
    /\ ScSet([ScCur EXCEPT !.pc = "intersect",
                           !.sent = Append(@, ls_send(CHAIN_SYNC,
                                                      cs_find_intersect(<<StartPoint>>)))])
    /\ UNCHANGED <<sc_desc, sc_last, sc_noise, sc_wait, sc_idle>>
    /\ UNCHANGED scOthers

\* cli.py 122-126: the reply to find_intersect is read
ScRecvIntersect ==
    /\ sc_pc = "intersect"
    /\ \E f \in ScFrames :
          /\ \E s \in ScIntersectReply(ScCur, f) : ScSet(s)
          /\ \E ty \in ScReplyTypes(CHAIN_SYNC, f) : ScNote(ty)
    /\ UNCHANGED <<sc_desc, sc_noise, sc_wait, sc_idle>>
    /\ UNCHANGED scOthers

\* chainsync.py 110-131: a reply is read in stream_headers
ScRecvStream ==
    /\ sc_pc = "stream"
    /\ \E f \in ScFrames :
          /\ \E s \in ScStreamReply(ScCur, f) : ScSet(s)
          /\ \E ty \in ScReplyTypes(CHAIN_SYNC, f) :
                /\ ScNote(ty)
                /\ IF ty = "roll_forward"
                   THEN sc_idle' = 0 /\ UNCHANGED sc_noise
                   ELSE sc_noise < MaxScNoise /\ sc_noise' = sc_noise + 1 /\ UNCHANGED sc_idle
    /\ sc_wait' = 0
    /\ UNCHANGED sc_desc
    /\ UNCHANGED scOthers

\* chainsync.py 112-114: time passes in the recv of stream_headers; at
\* idle_timeout the wait ends and stream_headers returns
ScTick ==
    /\ sc_pc = "stream"
    /\ IF sc_wait + 1 >= IdleTimeout
       THEN ScSet(ScAfterLoop(ScCur)) /\ sc_wait' = 0
       ELSE ScSet(ScCur) /\ sc_wait' = sc_wait + 1
    /\ sc_idle' = Min(sc_idle + 1, IdleTimeout)
    /\ UNCHANGED <<sc_desc, sc_last, sc_noise>>
    /\ UNCHANGED scOthers

\* blockfetch.py 52: the first reply to request_range is read
ScRecvFetchFirst ==
    /\ sc_pc = "fetch1"
    /\ \E f \in ScFrames :
          /\ \E s \in ScFetchFirst(ScCur, f) : ScSet(s)
          /\ \E ty \in ScReplyTypes(BLOCK_FETCH, f) : ScNote(ty)
    /\ UNCHANGED <<sc_desc, sc_noise, sc_wait, sc_idle>>
    /\ UNCHANGED scOthers

\* blockfetch.py 59-69: a reply is read in the loop of fetch_block_body
ScRecvFetchStream ==
    /\ sc_pc = "fetch"
    /\ \E f \in ScFrames :
          /\ \E s \in ScFetchStream(ScCur, f) : ScSet(s)
          /\ \E ty \in ScReplyTypes(BLOCK_FETCH, f) :
                /\ ScNote(ty)
                /\ ty = "block" => sc_fetch.nblk < MaxBatch
    /\ UNCHANGED <<sc_desc, sc_noise, sc_wait, sc_idle>>
    /\ UNCHANGED scOthers

\* n2n_client.py 144-148: conn.recv outside stream_headers times out, or the
\* relay closes the socket under any recv
ScRecvFails ==
    /\ sc_pc \in {"intersect", "stream", "fetch1", "fetch"}
    /\ \E e \in {"TimeoutError", "IncompleteReadError"} :
          /\ e = "TimeoutError" => sc_pc # "stream"
          /\ ScSet(ScRaise(ScCur, e))
    /\ UNCHANGED <<sc_desc, sc_last, sc_noise, sc_wait, sc_idle>>
    /\ UNCHANGED scOthers

ScNext ==
    \/ ScFindIntersect
    \/ ScRecvIntersect
    \/ ScRecvStream
    \/ ScTick
    \/ ScRecvFetchFirst
    \/ ScRecvFetchStream
    \/ ScRecvFails

-----------------------------------------------------------------------------
(* The other front-ends, from the bytes they obtained to the output file:  *)
(* lsview cmd_reconstruct_utxo, koios-cli read_scroll.py (standard scroll) *)
(* and viewer.py.  What the network returned is drawn from small sets.     *)

\* expected digests a descriptor or manifest can carry: none, the SHA-256 of
\* the scroll's bytes in upper case, the SHA-256 of other bytes
FeDigests == {None, {DigestTxt(DataA, TRUE)}, {DigestTxt(DataB, FALSE)}}

\* cli.py _extract_outputs(tx_body)
extract_outputs(tx_body) ==
    IF tx_body.k = "map"
    THEN IF MapHas(tx_body, U(1)) /\ TruthyVal(MapGet(tx_body, U(1))) /\ MapGet(tx_body, U(1)).k = "list"
         THEN MapGet(tx_body, U(1)).v ELSE <<>>
    ELSE IF tx_body.k = "list" /\ Len(tx_body.v) > 1 /\ tx_body.v[2].k = "list"
    THEN tx_body.v[2].v
    ELSE <<>>

\* cli.py _extract_inline_datum(output): the possible outcomes, each the
\* bytes or {} for None
extract_inline_datum(output) ==
    LET datum0 == IF output.k = "list" /\ Len(output.v) >= 3 THEN {output.v[3]}
                  ELSE IF output.k = "map" /\ MapHas(output, U(2)) THEN {MapGet(output, U(2))}
                  ELSE None
        d0 == CHOOSE x \in datum0 : TRUE
        tagged == d0.k = "list" /\ Len(d0.v) >= 2
        datum == IF tagged THEN d0.v[2] ELSE d0
    IN  IF datum0 = None THEN {None}
        ELSE IF tagged /\ ~IsU(d0.v[1], 2) THEN {None}
        ELSE IF IsBytes(datum)
        THEN {IF r.ok /\ IsBytes(r.val) THEN {AsBytes(r.val)} ELSE {AsBytes(datum)} :
                 r \in cbor_loads(AsBytes(datum))}
        ELSE {None}

\* a transaction output [address, value, datum]
TxOut(datum) == L(<<Bstr("addr", 2), U(5), datum>>)

\* a block of one transaction with the outputs outs, as fetch_block_body returns it
UtxoBlock(outs) ==
    cbor_dumps(Tag(24, Enc(L(<<U(6), L(<<L(<<>>), L(<<Map(<<Pair(U(1), L(outs))>>)>>), L(<<>>),
                                         Map(<<>>)>>)>>))))

\* the blocks at the descriptor's point: the scroll as inline datum of output
\* 0 (bytes within bytes) next to an output without datum, other bytes as
\* inline datum, and a block without transactions
UtxoBodies ==
    {UtxoBlock(<<TxOut(L(<<U(2), Enc(Seg("A", 0, PlainLen))>>)), TxOut(L(<<U(0), Bstr("h", 2)>>))>>),
     UtxoBlock(<<TxOut(L(<<U(2), Seg("B", 0, PlainLen)>>))>>),
     cbor_dumps(Tag(24, Enc(L(<<U(6), L(<<L(<<>>), L(<<>>), L(<<>>), Map(<<>>)>>)>>))))}

\* cmd_reconstruct_utxo from the return of fetch_block_body on (cli.py
\* 238-274), without --tx-hash: the outcomes, each the bytes written or an error
utxo_reconstruct(body, tx_ix) ==
    IF body = None THEN {Err("SystemExit: block not found")}
    ELSE UNION {
      IF block.type = "error" THEN {Err(block.err)}
      ELSE IF block.tx_bodies = <<>> THEN {Err("SystemExit: transaction not found")}
      ELSE LET outputs == extract_outputs(block.tx_bodies[1])
           IN  IF tx_ix >= Len(outputs) THEN {Err("SystemExit: tx output index out of range")}
               ELSE {IF datum_bytes = None THEN Err("SystemExit: no inline datum")
                     ELSE [type |-> "written", bytes |-> CHOOSE b \in datum_bytes : TRUE] :
                        datum_bytes \in extract_inline_datum(outputs[tx_ix + 1])} :
      block \in ls_parse_block(CHOOSE b \in body : TRUE)}

\* read_scroll.py reconstruct_standard(txin, expected_sha256), raw being what
\* fetch_utxo_datum returned ({} when it raised)
reconstruct_standard(raw, expected_sha256) ==
    IF raw = None THEN Err("KoiosError")
    ELSE LET data == CHOOSE b \in raw : TRUE
             sha == sha256_hex(data)
         IN  IF Truthy(expected_sha256)
                /\ str_lower(sha) # str_lower(CHOOSE d \in expected_sha256 : TRUE)
             THEN Err("KoiosError: SHA-256 mismatch")
             ELSE [type |-> "data", bytes |-> data, sha |-> sha]

\* viewer.py pick_hash(meta, keys): the text has no surrounding blanks
RECURSIVE pick_hash(_, _)
pick_hash(meta, keys) ==
    IF keys = <<>> THEN None
    ELSE IF MapHas(meta, Txt(Head(keys))) /\ IsStr(MapGet(meta, Txt(Head(keys))))
            /\ TruthyVal(MapGet(meta, Txt(Head(keys))))
    THEN {str_lower(MapGet(meta, Txt(Head(keys))))}
    ELSE pick_hash(meta, Tail(keys))

GzKeys == <<"sha_gz", "sha_gzip", "sha_compressed", "sha">>
RawKeys == <<"sha_raw", "sha_html", "sha_uncompressed">>

\* viewer.py verify_optional(label, data, expected_hex): the lines it prints
verify_optional(label, data, expected_hex) ==
    IF ~Truthy(expected_hex) THEN <<>>
    ELSE IF sha256_hex(data) # str_lower(CHOOSE d \in expected_hex : TRUE)
    THEN <<[warning |-> TRUE, label |-> label]>>
    ELSE <<[warning |-> FALSE, label |-> label]>>

\* the manifests viewer.py can find: each digest absent, right or wrong; the
\* compressed digest under the key sha, the raw digest under sha_raw
ViewerMeta(gz, raw) ==
    Map((IF gz = None THEN <<>> ELSE <<Pair(Txt("sha"), CHOOSE d \in gz : TRUE)>>)
        \o (IF raw = None THEN <<>> ELSE <<Pair(Txt("sha_raw"), CHOOSE d \in raw : TRUE)>>))
GzDigests == {None, {DigestTxt(BytesOf([k |-> "raw", v |-> "gzA"], GzLen), FALSE)},
              {DigestTxt(DataB, FALSE)}}

\* the bytes viewer.py can assemble from the pages: the scroll gzipped, the
\* scroll itself, other bytes
ViewerBlobs == {BytesOf([k |-> "raw", v |-> "gzA"], GzLen), DataA, DataB}

\* viewer.py main from "blob = bytes(assembled)" to write_bytes (338-368)
viewer_write(blob, meta, no_gunzip) ==
    LET expected_gz == pick_hash(meta, GzKeys)
        log1 == IF Truthy(expected_gz)
                THEN verify_optional("assembled (compressed)", blob, expected_gz) ELSE <<>>
        looks_gzip == BLen(blob) >= 2 /\ BAt(blob, 0) = 31 /\ BAt(blob, 1) = 139
        gunzip == looks_gzip /\ ~no_gunzip
        expected_raw == pick_hash(meta, RawKeys)
    IN  IF gunzip /\ gzip_decompress(blob) = {}
        THEN [type |-> "error", err |-> "BadGzipFile", log |-> log1]
        ELSE LET out_bytes == IF gunzip THEN CHOOSE b \in gzip_decompress(blob) : TRUE ELSE blob
                 log2 == IF Truthy(expected_raw)
                         THEN verify_optional("assembled (uncompressed)", out_bytes, expected_raw)
                         ELSE <<>>
             IN  [type |-> "written", bytes |-> out_bytes, log |-> log1 \o log2]

FeArgs(tool) ==
    CASE tool = "utxo" -> [expected : FeDigests, tx_ix : {0, 1}]
      [] tool = "koios" -> [expected : FeDigests, mode : {"preview", "save", "verify"}]
      [] tool = "viewer" -> {[meta |-> ViewerMeta(gz, raw), no_gunzip |-> ng] :
                                gz \in GzDigests, raw \in FeDigests, ng \in BOOLEAN}

FeInit ==
    /\ fe_pc = "start"
    /\ fe_tool \in {"utxo", "koios", "viewer"}
    /\ fe_args \in FeArgs(fe_tool)
    /\ fe_data = NoData
    /\ fe_file = None
    /\ fe_out = None
    /\ fe_result = "running"
    /\ fe_log = <<>>
    \* the codec harness is not running
    /\ cx_phase = "off"
    /\ cx_proto = 0
    /\ cx_len = 0
    /\ cx_now = 0
    /\ cx_ls = NoFrame
    /\ cx_ref = NoFrame
    /\ cx_segs = <<>>
    /\ cx_send = <<>>
    /\ cx_dec = NoFrame
    \* the connection is seen through what it returned
    /\ ls_pc = "off"
    /\ ls_writer = FALSE
    /\ ls_negotiated_version = None
    /\ ls_in = <<>>
    /\ ls_skew = FALSE
    /\ ls_eof = FALSE
    /\ ls_out = <<>>
    /\ ls_read = <<>>
    /\ ls_calls = <<>>
    \* no reference client exists
    /\ r_conn = "new"
    /\ r_connected = FALSE
    /\ r_version = None
    /\ r_writer = "none"
    /\ r_wire = <<>>
    /\ r_eof = FALSE
    /\ r_sent = <<>>
    /\ r_demux = "none"
    /\ r_bufs = [p \in BufProtos |-> <<>>]
    /\ r_task = Idle
    /\ r_calls = <<>>
    /\ r_reply = <<>>
    /\ r_routed = <<>>
    /\ r_closed = ""
    /\ r_peer = [bf |-> "idle", first |-> FALSE, blocks |-> 0, answered |-> 0, noise |-> 0,
                 bf_msgs |-> <<>>]
    \* no CIP-25 scan is running
    /\ sc_pc = "off"
    /\ sc_desc = None
    /\ sc_open = FALSE
    /\ sc_sent = <<>>
    /\ sc_yielded = 0
    /\ sc_pages = <<>>
    /\ sc_manifest = None
    /\ sc_fetch = NoFetch
    /\ sc_file = None
    /\ sc_result = "running"
    /\ sc_last = NoReply
    /\ sc_noise = 0
    /\ sc_wait = 0
    /\ sc_idle = 0
    \* no function harness is running
    /\ pf_pc = "off"
    /\ pf_fn = ""
    /\ pf_in = <<>>
    /\ pf_out = <<>>
    \* no fetch-block command is running
    /\ oc_pc = "off"
    /\ oc_args = <<>>
    /\ oc_cands = <<>>
    /\ oc_tried = <<>>
    /\ oc_conn = None
    /\ oc_closed = <<>>
    /\ oc_sent = <<>>
    /\ oc_fetch = NoFetch
    /\ oc_replies = <<>>
    /\ oc_file = None
    /\ oc_exit = NoExit
    \* the relay of the scan is not modelled
    /\ pr_cs = "off"
    /\ pr_bf = NoBatch
    /\ pr_wire = <<>>
    /\ pr_chain = <<>>
    /\ pr_ptr = 0
    /\ pr_forks = 0
    /\ pr_viol = {}
    \* no retry loop is running
    /\ rt_pc = "off"
    /\ rt_fn = ""
    /\ rt_retries = 0
    /\ rt_i = 0
    /\ rt_last = None
    /\ rt_log = <<>>
    /\ rt_result = None

\* cli.py 238-279: lsview reconstruct-utxo, fetch_block_body has returned
FeUtxo ==
    /\ fe_pc = "start"
    /\ fe_tool = "utxo"
    /\ \E body \in {None} \cup {{b} : b \in UtxoBodies} :
          \E r \in utxo_reconstruct(body, fe_args.tx_ix) :
             IF r.type = "error"
             THEN fe_result' = r.err /\ UNCHANGED <<fe_file, fe_data>>
             ELSE /\ fe_result' = "ok"
                  /\ fe_file' = {r.bytes}
                  /\ fe_data' = [blob |-> {r.bytes}, out |-> {r.bytes}]
    /\ fe_pc' = "end"
    /\ UNCHANGED <<fe_tool, fe_args, fe_out, fe_log>>
    /\ UNCHANGED feOthers

\* read_scroll.py 254-311: main for a standard scroll, fetch_utxo_datum has
\* returned or raised
FeKoios ==
    /\ fe_pc = "start"
    /\ fe_tool = "koios"
    /\ \E raw \in {None, {DataA}, {DataB}} :
          LET r == reconstruct_standard(raw, fe_args.expected)
          IN  /\ fe_data' = [blob |-> raw, out |-> raw]
              /\ IF r.type = "error"
                 THEN fe_result' = r.err /\ UNCHANGED <<fe_file, fe_out>>
                 ELSE /\ fe_result' = "ok"
                      /\ fe_file' = IF fe_args.mode = "save" THEN {r.bytes} ELSE None
                      /\ fe_out' = IF fe_args.mode = "preview" THEN {r.bytes} ELSE None
    /\ fe_pc' = "end"
    /\ UNCHANGED <<fe_tool, fe_args, fe_log>>
    /\ UNCHANGED feOthers

\* viewer.py 338-368: the pages are assembled; verify, gunzip, verify, write
FeViewer ==
    /\ fe_pc = "start"
    /\ fe_tool = "viewer"
    /\ \E blob \in ViewerBlobs :
          LET r == viewer_write(blob, fe_args.meta, fe_args.no_gunzip)
          IN  /\ fe_log' = r.log
              /\ IF r.type = "error"
                 THEN /\ fe_result' = r.err
                      /\ fe_data' = [blob |-> {blob}, out |-> {}]
                      /\ UNCHANGED fe_file
                 ELSE /\ fe_result' = "ok"
                      /\ fe_data' = [blob |-> {blob}, out |-> {r.bytes}]
                      /\ fe_file' = {r.bytes}
    /\ fe_pc' = "end"
    /\ UNCHANGED <<fe_tool, fe_args, fe_out>>
    /\ UNCHANGED feOthers

FeNext == FeUtxo \/ FeKoios \/ FeViewer

-----------------------------------------------------------------------------
(* Codec harness: inputs are drawn, then the encoders and decoders run     *)

\* payload lengths around every multiple of the SDU limit
LenSet == {n \in {k * MUX_MAX_SDU_N2N + d : k \in 0..MaxChunks, d \in {-1, 0, 1}} :
              n >= 0 /\ n <= MaxChunks * MUX_MAX_SDU_N2N + 1}

ProtoIds == 0..(Pow15 - 1)
MiniProtocols == {HANDSHAKE, CHAIN_SYNC, BLOCK_FETCH, TX_SUBMISSION, KEEP_ALIVE, PEER_SHARING}

CxPayload == BytesOf([k |-> "raw", v |-> "p"], cx_len)

CxInit ==
    /\ cx_phase = "input"
    /\ \/ cx_proto \in ProtoIds /\ cx_len \in {0, MUX_MAX_SDU_N2N}
       \/ cx_proto \in MiniProtocols /\ cx_len \in LenSet
    /\ cx_now \in {0, 7}
    /\ cx_ls = NoFrame
    /\ cx_ref = NoFrame
    /\ cx_segs = <<>>
    /\ cx_send = <<>>
    /\ cx_dec = NoFrame
    \* no connection exists
    /\ ls_pc = "off"
    /\ ls_writer = FALSE
    /\ ls_negotiated_version = None
    /\ ls_in = <<>>
    /\ ls_skew = FALSE
    /\ ls_eof = FALSE
    /\ ls_out = <<>>
    /\ ls_read = <<>>
    /\ ls_calls = <<>>
    \* no reference client exists
    /\ r_conn = "off"
    /\ r_connected = FALSE
    /\ r_version = None
    /\ r_writer = "none"
    /\ r_wire = <<>>
    /\ r_eof = FALSE
    /\ r_sent = <<>>
    /\ r_demux = "none"
    /\ r_bufs = <<>>
    /\ r_task = [op |-> "idle"]
    /\ r_calls = <<>>
    /\ r_reply = <<>>
    /\ r_routed = <<>>
    /\ r_closed = ""
    /\ r_peer = [bf |-> "idle"]
    \* no CIP-25 scan is running
    /\ sc_pc = "off"
    /\ sc_desc = None
    /\ sc_open = FALSE
    /\ sc_sent = <<>>
    /\ sc_yielded = 0
    /\ sc_pages = <<>>
    /\ sc_manifest = None
    /\ sc_fetch = NoFetch
    /\ sc_file = None
    /\ sc_result = "running"
    /\ sc_last = NoReply
    /\ sc_noise = 0
    /\ sc_wait = 0
    /\ sc_idle = 0
    \* no other front-end is running
    /\ fe_pc = "off"
    /\ fe_tool = ""
    /\ fe_args = <<>>
    /\ fe_data = NoData
    /\ fe_file = None
    /\ fe_out = None
    /\ fe_result = "running"
    /\ fe_log = <<>>
    \* no function harness is running
    /\ pf_pc = "off"
    /\ pf_fn = ""
    /\ pf_in = <<>>
    /\ pf_out = <<>>
    \* no fetch-block command is running
    /\ oc_pc = "off"
    /\ oc_args = <<>>
    /\ oc_cands = <<>>
    /\ oc_tried = <<>>
    /\ oc_conn = None
    /\ oc_closed = <<>>
    /\ oc_sent = <<>>
    /\ oc_fetch = NoFetch
    /\ oc_replies = <<>>
    /\ oc_file = None
    /\ oc_exit = NoExit
    \* the relay of the scan is not modelled
    /\ pr_cs = "off"
    /\ pr_bf = NoBatch
    /\ pr_wire = <<>>
    /\ pr_chain = <<>>
    /\ pr_ptr = 0
    /\ pr_forks = 0
    /\ pr_viol = {}
    \* no retry loop is running
    /\ rt_pc = "off"
    /\ rt_fn = ""
    /\ rt_retries = 0
    /\ rt_i = 0
    /\ rt_last = None
    /\ rt_log = <<>>
    /\ rt_result = None

\* the client encodes one payload with each encoder and each send path
CxEncode ==
    /\ cx_phase = "input"
    /\ cx_phase' = "encoded"
    /\ cx_ls' = mux_encode(cx_proto, CxPayload, TRUE, 0)
    /\ cx_ref' = orig_mux_encode(cx_proto, CxPayload, MUX_MODE_INITIATOR, cx_now)
    /\ cx_segs' = send_protocol(cx_proto, CxPayload, cx_now)
    /\ cx_send' = N2N_send(cx_proto, CxPayload)
    /\ UNCHANGED <<cx_proto, cx_len, cx_now, cx_dec>>
    /\ UNCHANGED cxOthers

\* each decoder reads the header of each encoder's frame
CxDecode ==
    /\ cx_phase = "encoded"
    /\ cx_ref # StructError
    /\ cx_phase' = "decoded"
    /\ cx_dec' = [ls_ls   |-> mux_decode_header(cx_ls),
                  ref_ref |-> MuxSegment_decode(cx_ref, cx_ref.payload),
                  ls_ref  |-> mux_decode_header(cx_ref),
                  ref_ls  |-> MuxSegment_decode(cx_ls, cx_ls.payload)]
    /\ UNCHANGED <<cx_proto, cx_len, cx_now, cx_ls, cx_ref, cx_segs, cx_send>>
    /\ UNCHANGED cxOthers

CxNext == CxEncode \/ CxDecode

-----------------------------------------------------------------------------
(* Reference parse_block, with the fields it fills *)

\* what parse_block returns when it stops after setting raw_cbor and era
FetchedBlock(raw_cbor, era_index) ==
    [raw_cbor |-> raw_cbor, era_index |-> era_index, slot |-> None, transactions |-> <<>>,
     tx_metadata |-> <<>>, auxiliary_data |-> <<>>]

\* lines 546-555: one entry of tx_metadata per entry of aux_data_map that
\* holds a metadata map
orig_tx_metadata(items) ==
    LET HasMeta(e) == \/ e.val.k = "map"
                      \/ e.val.k = "list" /\ Len(e.val.v) >= 1 /\ e.val.v[1].k = "map"
        kept == SelectSeq(items, HasMeta)
    IN  [i \in 1..Len(kept) |->
            Pair(kept[i].key, IF kept[i].val.k = "map" THEN kept[i].val ELSE kept[i].val.v[1])]

\* lines 529-555 for the decoded inner block
orig_parse_inner(raw_cbor, era_index, inner_block) ==
    IF inner_block.k = "list" /\ Len(inner_block.v) >= 4
    THEN LET header == inner_block.v[1]
             tx_bodies == inner_block.v[2]
             aux_data_map == inner_block.v[4]
             hb == header.v[1]
             hasSlot == /\ header.k = "list" /\ Len(header.v) >= 2
                        /\ hb.k = "list" /\ Len(hb.v) >= 2
         IN  [raw_cbor |-> raw_cbor, era_index |-> era_index,
              slot |-> IF hasSlot /\ IsInt(hb.v[2]) THEN {hb.v[2].v} ELSE None,
              transactions |-> IF tx_bodies.k = "list" THEN tx_bodies.v
                               ELSE IF tx_bodies.k = "map"
                               THEN [i \in 1..Len(DictItems(tx_bodies)) |->
                                        DictItems(tx_bodies)[i].val]
                               ELSE <<>>,
              tx_metadata |-> IF aux_data_map.k = "map"
                              THEN orig_tx_metadata(DictItems(aux_data_map)) ELSE <<>>,
              auxiliary_data |-> IF aux_data_map.k = "map" THEN DictItems(aux_data_map)
                                 ELSE <<>>]
    ELSE FetchedBlock(raw_cbor, era_index)

\* lines 506-525 for the decoded block_data: the possible outcomes
orig_parse_data(raw_cbor, block_data) ==
    LET isTag == block_data.k = "tag"
        isPair == /\ block_data.k = "list" /\ Len(block_data.v) = 2
                  /\ IsInt(block_data.v[1]) /\ block_data.v[1].v < 7
        era_index == IF isTag THEN {block_data.tag}
                     ELSE IF isPair THEN {block_data.v[1].v} ELSE None
        inner_block == IF isTag THEN block_data.v
                       ELSE IF isPair THEN block_data.v[2] ELSE block_data
    IN  IF IsBytes(inner_block)
        THEN {IF r.ok THEN orig_parse_inner(raw_cbor, era_index, r.val)
              ELSE FetchedBlock(raw_cbor, era_index) : r \in cbor_loads(AsBytes(inner_block))}
        ELSE {orig_parse_inner(raw_cbor, era_index, inner_block)}

\* reference parse_block(block_cbor): the possible outcomes; every exception
\* is caught and the result so far is returned
orig_parse_block(block_cbor) ==
    IF IsBytes(block_cbor)
    THEN UNION {IF r.ok THEN orig_parse_data(AsBytes(block_cbor), r.val)
                ELSE {FetchedBlock(AsBytes(block_cbor), None)} :
                   r \in cbor_loads(AsBytes(block_cbor))}
    ELSE orig_parse_data(cbor_dumps(block_cbor), block_cbor)

-----------------------------------------------------------------------------
(* The scroll functions and the two block parsers applied to drawn inputs  *)

\* assets of one policy as extract_cip25_assets returns them
PgAsset(name, fields) == Cip25Asset(WantedPolicy, name, Map(fields))

\* pages: with index 0 and 1, two more that share index 1 and have none, and
\* one whose segment is hex text with a defect
PgP1 == PgAsset("P1", <<Pair(Txt("i"), U(0)), Pair(Txt("payload"), L(<<Seg("A", 0, 1)>>))>>)
PgP2 == PgAsset("P2", <<Pair(Txt("i"), U(1)), Pair(Txt("payload"), L(<<Seg("A", 1, 2)>>))>>)
PgP3 == PgAsset("P3", <<Pair(Txt("i"), U(1)),
                        Pair(Txt("payload"), L(<<HexTxt("B", 0, 1, TRUE)>>))>>)
PgP4 == PgAsset("P4", <<Pair(Txt("payload"), L(<<Seg("B", 1, 2)>>))>>)
PgP5 == PgAsset("P5", <<Pair(Txt("i"), U(2)),
                        Pair(Txt("payload"), L(<<HexTxt("C", 0, 1, FALSE)>>))>>)
\* a manifest by its fields, and an asset that has neither payload nor
\* manifest fields
PgM == PgAsset("M", <<Pair(Txt("codec"), Txt("none")), Pair(Txt("n"), U(1))>>)
PgX == PgAsset("X", <<Pair(Txt("name"), Txt("x"))>>)

\* the sequences without repetition of at most n members of set S
SeqsOf(S, n) ==
    {q \in UNION {[1..m -> S] : m \in 1..n} : \A i, j \in 1..Len(q) : i # j => q[i] # q[j]}

MaxPages == 3
MaxAssets == 2

PageLists == SeqsOf({PgP1, PgP2, PgP3, PgP4, PgP5}, MaxPages)
AssetLists == SeqsOf({PgP1, PgP4, PgM, PgX}, MaxAssets)
ManifestNames == {None, {"M"}, {"P4"}}

\* the gzip stream of the scroll, and the scroll itself
GzBytes == BytesOf([k |-> "raw", v |-> "gzA"], GzLen)
Codecs == {None, {Txt("gzip")}, {Txt("none")}}

\* a block [era, [header, tx_bodies, witnesses, aux]] with one transaction
\* and the auxiliary-data map aux
AuxBlock(aux) == L(<<U(6), L(<<L(<<L(<<U(0), U(7)>>), U(0)>>), L(<<Map(<<>>)>>), L(<<>>), aux>>)>>)
Meta721 == Map(<<Pair(U(CIP25_LABEL), Map(<<>>))>>)

\* what a MsgBlock can carry: blocks whose auxiliary-data map has the key of
\* the transaction, a key beyond the transactions, both, a text key; items
\* that are no block; and bytes that are no CBOR
BlockItems ==
    {AuxBlock(Map(<<Pair(U(0), Meta721)>>)),
     AuxBlock(Map(<<Pair(U(5), Meta721)>>)),
     AuxBlock(Map(<<Pair(U(0), L(<<Meta721>>)), Pair(U(5), Meta721)>>)),
     AuxBlock(Map(<<Pair(Txt("0"), Meta721)>>)),
     AuxBlock(L(<<>>)),
     L(<<U(6)>>), L(<<>>), U(5), Map(<<>>)}
BlockInputs ==
    BlockItems \cup {Enc(b) : b \in BlockItems} \cup {Tag(24, Enc(b)) : b \in BlockItems}
    \cup {Bstr("junk", 3)}

\* a manifest with codec and sha256_gz drawn: the codec absent, "gzip" or
\* "none"; the digest absent, that of the gzip stream, of the plain scroll,
\* or of other bytes
MfAsset(codec, sha_gz) ==
    PgAsset("M", <<Pair(Txt("n"), U(2)), Pair(Txt("content_type"), Txt("text/plain"))>>
                 \o (IF codec = None THEN <<>> ELSE <<Pair(Txt("codec"), CHOOSE c \in codec : TRUE)>>)
                 \o (IF sha_gz = None THEN <<>>
                     ELSE <<Pair(Txt("sha256_gz"), CHOOSE d \in sha_gz : TRUE)>>))
MfDigests == {None, {DigestTxt(GzBytes, FALSE)}, {DigestTxt(DataA, TRUE)}, {DigestTxt(DataB, FALSE)}}
\* pages that hold the gzip stream, the plain scroll, and the first byte of
\* the gzip stream (after the stream: trailing garbage)
MfG == PgAsset("P1", <<Pair(Txt("i"), U(1)), Pair(Txt("payload"), L(<<Seg("gzA", 0, GzLen)>>))>>)
MfA == PgAsset("P1", <<Pair(Txt("i"), U(1)), Pair(Txt("payload"), L(<<Seg("A", 0, PlainLen)>>))>>)
MfT == PgAsset("P2", <<Pair(Txt("i"), U(2)), Pair(Txt("payload"), L(<<Seg("gzA", 0, 1)>>))>>)
MfPageLists == {<<MfG>>, <<MfA>>, <<MfG, MfT>>, <<MfT>>}

PfInputs(fn) ==
    CASE fn = "reconstruct_pages" -> {[assets |-> a] : a \in PageLists}
      [] fn = "reconstruct_cip25" -> {[assets |-> a] : a \in PageLists}
      [] fn = "reconstruct_cip25_manifest" ->
            {[assets |-> <<MfAsset(c, d)>> \o a] : c \in Codecs, d \in MfDigests, a \in MfPageLists}
      [] fn = "maybe_gunzip" -> {[b |-> b, codec |-> c] : b \in {GzBytes, DataA}, c \in Codecs}
      [] fn = "classify_assets" ->
            {[assets |-> a, manifest_asset |-> m] : a \in AssetLists, m \in ManifestNames}
      [] fn = "ls_parse_block" -> {[body |-> IF IsBytes(b) THEN AsBytes(b) ELSE cbor_dumps(b),
                                    item |-> b] : b \in BlockInputs}
      [] fn = "orig_parse_block" -> {[block_cbor |-> b] : b \in BlockInputs}

PfFunctions ==
    {"reconstruct_pages", "reconstruct_cip25", "reconstruct_cip25_manifest", "maybe_gunzip",
     "classify_assets",
     "ls_parse_block", "orig_parse_block"}

PfInit ==
    /\ pf_pc = "input"
    /\ \E fn \in PfFunctions : pf_fn = fn /\ pf_in \in PfInputs(fn)
    /\ pf_out = <<>>
    \* the codec harness is not running
    /\ cx_phase = "off"
    /\ cx_proto = 0
    /\ cx_len = 0
    /\ cx_now = 0
    /\ cx_ls = NoFrame
    /\ cx_ref = NoFrame
    /\ cx_segs = <<>>
    /\ cx_send = <<>>
    /\ cx_dec = NoFrame
    \* no connection exists
    /\ ls_pc = "off"
    /\ ls_writer = FALSE
    /\ ls_negotiated_version = None
    /\ ls_in = <<>>
    /\ ls_skew = FALSE
    /\ ls_eof = FALSE
    /\ ls_out = <<>>
    /\ ls_read = <<>>
    /\ ls_calls = <<>>
    \* no reference client exists
    /\ r_conn = "off"
    /\ r_connected = FALSE
    /\ r_version = None
    /\ r_writer = "none"
    /\ r_wire = <<>>
    /\ r_eof = FALSE
    /\ r_sent = <<>>
    /\ r_demux = "none"
    /\ r_bufs = <<>>
    /\ r_task = [op |-> "idle"]
    /\ r_calls = <<>>
    /\ r_reply = <<>>
    /\ r_routed = <<>>
    /\ r_closed = ""
    /\ r_peer = [bf |-> "idle"]
    \* no CIP-25 scan is running
    /\ sc_pc = "off"
    /\ sc_desc = None
    /\ sc_open = FALSE
    /\ sc_sent = <<>>
    /\ sc_yielded = 0
    /\ sc_pages = <<>>
    /\ sc_manifest = None
    /\ sc_fetch = NoFetch
    /\ sc_file = None
    /\ sc_result = "running"
    /\ sc_last = NoReply
    /\ sc_noise = 0
    /\ sc_wait = 0
    /\ sc_idle = 0
    \* no other front-end is running
    /\ fe_pc = "off"
    /\ fe_tool = ""
    /\ fe_args = <<>>
    /\ fe_data = NoData
    /\ fe_file = None
    /\ fe_out = None
    /\ fe_result = "running"
    /\ fe_log = <<>>
    \* no fetch-block command is running
    /\ oc_pc = "off"
    /\ oc_args = <<>>
    /\ oc_cands = <<>>
    /\ oc_tried = <<>>
    /\ oc_conn = None
    /\ oc_closed = <<>>
    /\ oc_sent = <<>>
    /\ oc_fetch = NoFetch
    /\ oc_replies = <<>>
    /\ oc_file = None
    /\ oc_exit = NoExit
    \* the relay of the scan is not modelled
    /\ pr_cs = "off"
    /\ pr_bf = NoBatch
    /\ pr_wire = <<>>
    /\ pr_chain = <<>>
    /\ pr_ptr = 0
    /\ pr_forks = 0
    /\ pr_viol = {}
    \* no retry loop is running
    /\ rt_pc = "off"
    /\ rt_fn = ""
    /\ rt_retries = 0
    /\ rt_i = 0
    /\ rt_last = None
    /\ rt_log = <<>>
    /\ rt_result = None

\* the function of the harness returned out
PfDone(out) ==
    /\ pf_pc' = "done"
    /\ pf_out' = out
    /\ UNCHANGED <<pf_fn, pf_in>>
    /\ UNCHANGED pfOthers

\* reconstruct_pages(classify_assets(assets, None)[0])
PfReconstructPages ==
    /\ pf_pc = "input"
    /\ pf_fn = "reconstruct_pages"
    /\ PfDone(reconstruct_pages(classify_assets(pf_in.assets, None).pages))

\* reconstruct_cip25(pages, None, out_name) on the classified pages
PfReconstructCip25 ==
    /\ pf_pc = "input"
    /\ pf_fn = "reconstruct_cip25"
    /\ PfDone(reconstruct_cip25(classify_assets(pf_in.assets, None).pages, None, OutName))

\* reconstruct_cip25(pages, manifest, out_name) of the classified assets of a
\* scroll with a manifest
PfReconstructManifest ==
    /\ pf_pc = "input"
    /\ pf_fn = "reconstruct_cip25_manifest"
    /\ LET c == classify_assets(pf_in.assets, None)
       IN  PfDone(reconstruct_cip25(c.pages, c.manifest, OutName))

PfMaybeGunzip ==
    /\ pf_pc = "input"
    /\ pf_fn = "maybe_gunzip"
    /\ PfDone(maybe_gunzip(pf_in.b, pf_in.codec))

PfClassifyAssets ==
    /\ pf_pc = "input"
    /\ pf_fn = "classify_assets"
    /\ PfDone(classify_assets(pf_in.assets, pf_in.manifest_asset))

PfLsParseBlock ==
    /\ pf_pc = "input"
    /\ pf_fn = "ls_parse_block"
    /\ \E out \in ls_parse_block(pf_in.body) : PfDone(out)

PfOrigParseBlock ==
    /\ pf_pc = "input"
    /\ pf_fn = "orig_parse_block"
    /\ \E out \in orig_parse_block(pf_in.block_cbor) : PfDone(out)

PfNext ==
    \/ PfReconstructPages
    \/ PfReconstructCip25
    \/ PfReconstructManifest
    \/ PfMaybeGunzip
    \/ PfClassifyAssets
    \/ PfLsParseBlock
    \/ PfOrigParseBlock

-----------------------------------------------------------------------------
(* lsview open_connection and the commands cmd_tip, cmd_fetch_block and    *)
(* cmd_reconstruct_utxo.  Each relay answers the proposal with one of the  *)
(* first frames a relay can write; the frames of ChainSync and BlockFetch  *)
(* arrive whole, in the layout the connection reads.                       *)

RelayA == <<"r1", 3001>>
RelayB == <<"r2", 3001>>

RECURSIVE uniq_loop(_, _)
\* the loop over (host, port) that skips a key already seen
uniq_loop(items, uniq) ==
    IF items = <<>> THEN uniq
    ELSE uniq_loop(Tail(items),
                   IF \E i \in 1..Len(uniq) : uniq[i] = Head(items) THEN uniq
                   ELSE Append(uniq, Head(items)))

\* load_topology(source), for the endpoints _extract_endpoints found
load_topology(endpoints) == uniq_loop(endpoints, <<>>)

\* _relay_candidates(args); no candidates raises SystemExit
relay_candidates(args) ==
    uniq_loop((IF args.relay # "" THEN <<<<args.relay, args.port>>>> ELSE <<>>)
              \o (IF args.topology # None
                  THEN load_topology(CHOOSE t \in args.topology : TRUE) ELSE <<>>),
              <<>>)

\* the commands that open a connection and then make one request
OcCommands == {"tip", "fetch-block", "reconstruct-utxo"}

\* the block of one transaction whose output 0 carries the scroll as inline
\* datum, as a MsgBlock carries it
OcUtxoItem ==
    Tag(24, Enc(L(<<U(6), L(<<L(<<>>),
                              L(<<Map(<<Pair(U(1), L(<<TxOut(L(<<U(2), Enc(Seg("A", 0, PlainLen))>>))>>))>>)>>),
                              L(<<>>), Map(<<>>)>>)>>)))

\* what conn.recv reads in these commands: the frames of the scan, and
\* MsgBlock with that block and with an item that is no block
OcFrames ==
    ScFrames \cup {[p |-> BLOCK_FETCH, payload |-> cbor_dumps(MsgBlock(b))] : b \in {OcUtxoItem, U(7)}}

\* the runs: each command, with and without --relay, --topology and --out
\* (reconstruct-utxo is run with --block-slot, --block-hash and --tx-ix 0)
OcArgs ==
    {[cmd |-> c, relay |-> r, port |-> 3001, topology |-> t, out |-> o, tx_ix |-> 0] :
        c \in OcCommands,
        r \in {"", "r1"},
        t \in {None, {<<RelayB>>}, {<<RelayB, RelayA>>}, {<<RelayA, RelayB, RelayA>>}},
        o \in {None, {OutName}}}

\* what the relay of an endpoint does when it is tried: the TCP connect is
\* refused or times out, the relay stays silent, or it answers with a frame
RelayActs ==
    {[kind |-> k, frame |-> NoFrame] : k \in {"oserror", "timeout", "silent"}}
    \cup {[kind |-> "frame", frame |-> f] : f \in PeerFirstFrames}

\* N2NConnection.open() against a relay that does act: how the call ends
ls_open(act) ==
    IF act.kind = "oserror" THEN {"OSError"}
    ELSE IF act.kind \in {"timeout", "silent"} THEN {"TimeoutError"}
    ELSE IF mux_decode_header(act.frame).proto_id # HANDSHAKE THEN {"ValueError"}
    ELSE {IF decoded.type = "error" THEN decoded.err
          ELSE IF decoded.type # "accept" THEN "RuntimeError"
          ELSE "ok" : decoded \in ls_decode_response(act.frame.payload)}

\* how the process ends: status 0 when main returns; an exception that
\* leaves main, SystemExit(message) included, prints and gives status 1
exit_of(e) ==
    IF e = "ok" THEN [status |-> 0, message |-> ""] ELSE [status |-> 1, message |-> e]

NotFoundMessage == "Block not found on relay for this point."

OcInit ==
    /\ oc_pc = "connect"
    /\ oc_args \in OcArgs
    /\ oc_cands = relay_candidates(oc_args)
    /\ oc_tried = <<>>
    /\ oc_conn = None
    /\ oc_closed = <<>>
    /\ oc_sent = <<>>
    /\ oc_fetch = NoFetch
    /\ oc_replies = <<>>
    /\ oc_file = None
    /\ oc_exit = NoExit
    \* the relay of the scan is not modelled
    /\ pr_cs = "off"
    /\ pr_bf = NoBatch
    /\ pr_wire = <<>>
    /\ pr_chain = <<>>
    /\ pr_ptr = 0
    /\ pr_forks = 0
    /\ pr_viol = {}
    \* no retry loop is running
    /\ rt_pc = "off"
    /\ rt_fn = ""
    /\ rt_retries = 0
    /\ rt_i = 0
    /\ rt_last = None
    /\ rt_log = <<>>
    /\ rt_result = None
    \* the codec harness is not running
    /\ cx_phase = "off"
    /\ cx_proto = 0
    /\ cx_len = 0
    /\ cx_now = 0
    /\ cx_ls = NoFrame
    /\ cx_ref = NoFrame
    /\ cx_segs = <<>>
    /\ cx_send = <<>>
    /\ cx_dec = NoFrame
    \* the connection is seen through what open, send and recv do
    /\ ls_pc = "off"
    /\ ls_writer = FALSE
    /\ ls_negotiated_version = None
    /\ ls_in = <<>>
    /\ ls_skew = FALSE
    /\ ls_eof = FALSE
    /\ ls_out = <<>>
    /\ ls_read = <<>>
    /\ ls_calls = <<>>
    \* no reference client exists
    /\ r_conn = "off"
    /\ r_connected = FALSE
    /\ r_version = None
    /\ r_writer = "none"
    /\ r_wire = <<>>
    /\ r_eof = FALSE
    /\ r_sent = <<>>
    /\ r_demux = "none"
    /\ r_bufs = <<>>
    /\ r_task = [op |-> "idle"]
    /\ r_calls = <<>>
    /\ r_reply = <<>>
    /\ r_routed = <<>>
    /\ r_closed = ""
    /\ r_peer = [bf |-> "idle"]
    \* no CIP-25 scan is running
    /\ sc_pc = "off"
    /\ sc_desc = None
    /\ sc_open = FALSE
    /\ sc_sent = <<>>
    /\ sc_yielded = 0
    /\ sc_pages = <<>>
    /\ sc_manifest = None
    /\ sc_fetch = NoFetch
    /\ sc_file = None
    /\ sc_result = "running"
    /\ sc_last = NoReply
    /\ sc_noise = 0
    /\ sc_wait = 0
    /\ sc_idle = 0
    \* no other front-end is running
    /\ fe_pc = "off"
    /\ fe_tool = ""
    /\ fe_args = <<>>
    /\ fe_data = NoData
    /\ fe_file = None
    /\ fe_out = None
    /\ fe_result = "running"
    /\ fe_log = <<>>
    \* no function harness is running
    /\ pf_pc = "off"
    /\ pf_fn = ""
    /\ pf_in = <<>>
    /\ pf_out = <<>>

\* cli.py 28-29, 58: there is no candidate, or every candidate has failed
OcNoRelay ==
    /\ oc_pc = "connect"
    /\ oc_cands = <<>>
    /\ oc_pc' = "end"
    /\ oc_exit' = exit_of(IF oc_tried = <<>> THEN "No relays specified. Use --relay or --topology."
                          ELSE "Could not connect to any relay.")
    /\ UNCHANGED <<oc_args, oc_cands, oc_tried, oc_conn, oc_closed, oc_sent, oc_fetch,
                   oc_replies, oc_file>>
    /\ UNCHANGED ocOthers

\* cli.py 44-56: one turn of the loop of open_connection; when open()
\* returns, the command goes on to its request: find_intersect([]) in
\* cmd_tip, fetch_block_body in cmd_fetch_block and cmd_reconstruct_utxo
OcTry ==
    /\ oc_pc = "connect"
    /\ oc_cands # <<>>
    /\ \E act \in RelayActs : \E res \in ls_open(act) :
          /\ oc_tried' = Append(oc_tried, [ep |-> Head(oc_cands), act |-> act, result |-> res])
          /\ IF res = "ok"
             THEN /\ oc_conn' = {Head(oc_cands)}
                  /\ oc_pc' = IF oc_args.cmd = "tip" THEN "tip" ELSE "fetch1"
                  /\ oc_sent' = Append(oc_sent,
                                       IF oc_args.cmd = "tip"
                                       THEN ls_send(CHAIN_SYNC, cs_find_intersect(<<>>))
                                       ELSE ls_send(BLOCK_FETCH,
                                                    ls_request_range(StartPoint, StartPoint)))
                  /\ UNCHANGED <<oc_cands, oc_closed>>
             ELSE /\ oc_closed' = Append(oc_closed, Head(oc_cands))
                  /\ oc_cands' = Tail(oc_cands)
                  /\ UNCHANGED <<oc_conn, oc_pc, oc_sent>>
    /\ UNCHANGED <<oc_args, oc_fetch, oc_replies, oc_file, oc_exit>>
    /\ UNCHANGED ocOthers

\* a command whose finally clause does not close the connection
OcRaiseNoClose(e) ==
    /\ oc_pc' = "end"
    /\ oc_closed' = oc_closed
    /\ oc_exit' = exit_of(e)
    /\ UNCHANGED <<oc_sent, oc_file>>

\* an exception e leaves the try block of the command: finally closes the
\* connection, the process ends
OcRaise(e) ==
    /\ oc_pc' = "end"
    /\ oc_closed' = oc_closed \o [i \in 1..Cardinality(oc_conn) |-> CHOOSE c \in oc_conn : TRUE]
    /\ oc_exit' = exit_of(e)
    /\ UNCHANGED <<oc_sent, oc_file>>

\* the try block of the command ends after bf.done(): finally closes the
\* connection, main returns
OcFinished(file) ==
    /\ oc_pc' = "end"
    /\ oc_file' = file
    /\ oc_sent' = Append(oc_sent, ls_send(BLOCK_FETCH, ls_client_done))
    /\ oc_closed' = oc_closed \o [i \in 1..Cardinality(oc_conn) |-> CHOOSE c \in oc_conn : TRUE]
    /\ oc_exit' = exit_of("ok")

\* cli.py 77-87 and 243-279: fetch_block_body has returned body ({} for None)
OcReturned(body) ==
    IF oc_args.cmd = "reconstruct-utxo"
    THEN \E r \in utxo_reconstruct(body, oc_args.tx_ix) :
            IF r.type = "error" THEN OcRaise(r.err) ELSE OcFinished({r.bytes})
    ELSE IF body = None THEN OcRaise(NotFoundMessage)
    ELSE OcFinished(IF oc_args.out # None THEN body ELSE oc_file)

\* cli.py 65-68: the reply to find_intersect([]) is read and printed
OcRecvTip ==
    /\ oc_pc = "tip"
    /\ \E f \in OcFrames :
          IF f.p # CHAIN_SYNC
          THEN /\ OcRaise("ValueError: unexpected protocol")
               /\ UNCHANGED oc_replies
          ELSE \E resp \in cs_decode(f.payload) :
                  /\ oc_replies' = Append(oc_replies, resp.type)
                  /\ IF resp.type = "error" THEN OcRaise(resp.err)
                     ELSE /\ oc_pc' = "end"
                          /\ oc_closed' = oc_closed \o [i \in 1..Cardinality(oc_conn) |->
                                                           CHOOSE c \in oc_conn : TRUE]
                          /\ oc_exit' = exit_of("ok")
                          /\ UNCHANGED <<oc_sent, oc_file>>
    /\ UNCHANGED <<oc_args, oc_cands, oc_tried, oc_conn, oc_fetch>>
    /\ UNCHANGED ocOthers

\* blockfetch.py 52-56: the first reply to request_range is read
OcRecvFirst ==
    /\ oc_pc = "fetch1"
    /\ \E f \in OcFrames :
          IF f.p # BLOCK_FETCH
          THEN /\ OcRaise("ValueError: unexpected protocol")
               /\ UNCHANGED <<oc_fetch, oc_replies>>
          ELSE \E first \in ls_bf_decode(f.payload) :
                  /\ oc_replies' = Append(oc_replies, first.type)
                  /\ UNCHANGED oc_fetch
                  /\ IF first.type = "error" THEN OcRaise(first.err)
                     ELSE IF first.type # "start_batch" THEN OcReturned(None)
                     ELSE /\ oc_pc' = "fetch"
                          /\ UNCHANGED <<oc_closed, oc_exit, oc_sent, oc_file>>
    /\ UNCHANGED <<oc_args, oc_cands, oc_tried, oc_conn>>
    /\ UNCHANGED ocOthers

\* blockfetch.py 59-69: a reply is read in the loop of fetch_block_body
OcRecvStream ==
    /\ oc_pc = "fetch"
    /\ \E f \in OcFrames :
          IF f.p # BLOCK_FETCH
          THEN /\ OcRaise("ValueError: unexpected protocol")
               /\ UNCHANGED <<oc_fetch, oc_replies>>
          ELSE \E resp \in ls_bf_decode(f.payload) :
                  /\ oc_replies' = Append(oc_replies, resp.type)
                  /\ IF resp.type = "error" THEN OcRaise(resp.err) /\ UNCHANGED oc_fetch
                     ELSE IF resp.type = "block"
                     THEN LET bb == resp.block_body
                              body == IF IsBytes(bb) THEN AsBytes(bb) ELSE cbor_dumps(bb)
                          IN  /\ oc_fetch.nblk < MaxBatch
                              /\ oc_fetch' = [first |-> IF oc_fetch.nblk = 0 THEN {body}
                                                        ELSE oc_fetch.first,
                                              nblk |-> oc_fetch.nblk + 1, body |-> {body},
                                              done |-> FALSE]
                              /\ UNCHANGED <<oc_pc, oc_closed, oc_exit, oc_sent, oc_file>>
                     ELSE /\ OcReturned(oc_fetch.body)
                          /\ oc_fetch' = [oc_fetch EXCEPT !.done = TRUE]
    /\ UNCHANGED <<oc_args, oc_cands, oc_tried, oc_conn>>
    /\ UNCHANGED ocOthers

\* n2n_client.py 144-148: a recv of the command times out, or the relay
\* closes the socket
OcRecvFails ==
    /\ oc_pc \in {"tip", "fetch1", "fetch"}
    /\ \E e \in {"TimeoutError", "IncompleteReadError"} : OcRaise(e)
    /\ UNCHANGED <<oc_args, oc_cands, oc_tried, oc_conn, oc_fetch, oc_replies>>
    /\ UNCHANGED ocOthers

OcNext ==
    \/ OcNoRelay
    \/ OcTry
    \/ OcRecvTip
    \/ OcRecvFirst
    \/ OcRecvStream
    \/ OcRecvFails

-----------------------------------------------------------------------------
(* The retry loops of the indexer clients: lsview koios.py with_retries and *)
(* koios_post of read_scroll.py and read_constitution.py (the same text in *)
(* both).  Each call of the request returns or raises; time.sleep is one   *)
(* step, its duration in units of backoff.                                 *)

\* retries is drawn from -1..MaxRetries
MaxRetries == 4

RECURSIVE TwoTo(_)
\* 2**i
TwoTo(i) == IF i <= 0 THEN 1 ELSE 2 * TwoTo(i - 1)

\* how one call of the request ends: it returns the rows, raises an
\* Exception, or raises a BaseException that is no Exception
RtOutcomes ==
    {[kind |-> "return", v |-> "rows"], [kind |-> "exception", v |-> "URLError"],
     [kind |-> "exception", v |-> "JSONDecodeError"], [kind |-> "base", v |-> "KeyboardInterrupt"]}

KoiosError(msg) == [type |-> "raise", exc |-> "KoiosError", msg |-> msg]

RtInit ==
    /\ rt_pc = "call"
    /\ rt_fn \in {"with_retries", "koios_post"}
    /\ rt_retries \in -1..MaxRetries
    /\ rt_i = 0
    /\ rt_last = None
    /\ rt_log = <<>>
    /\ rt_result = None
    \* no scan is running
    /\ sc_pc = "off"
    /\ sc_desc = None
    /\ sc_open = FALSE
    /\ sc_sent = <<>>
    /\ sc_yielded = 0
    /\ sc_pages = <<>>
    /\ sc_manifest = None
    /\ sc_fetch = NoFetch
    /\ sc_file = None
    /\ sc_result = "running"
    /\ sc_last = NoReply
    /\ sc_noise = 0
    /\ sc_wait = 0
    /\ sc_idle = 0
    \* the codec harness is not running
    /\ cx_phase = "off"
    /\ cx_proto = 0
    /\ cx_len = 0
    /\ cx_now = 0
    /\ cx_ls = NoFrame
    /\ cx_ref = NoFrame
    /\ cx_segs = <<>>
    /\ cx_send = <<>>
    /\ cx_dec = NoFrame
    \* the connection is seen through what send and recv do
    /\ ls_pc = "off"
    /\ ls_writer = FALSE
    /\ ls_negotiated_version = None
    /\ ls_in = <<>>
    /\ ls_skew = FALSE
    /\ ls_eof = FALSE
    /\ ls_out = <<>>
    /\ ls_read = <<>>
    /\ ls_calls = <<>>
    \* no reference client exists
    /\ r_conn = "new"
    /\ r_connected = FALSE
    /\ r_version = None
    /\ r_writer = "none"
    /\ r_wire = <<>>
    /\ r_eof = FALSE
    /\ r_sent = <<>>
    /\ r_demux = "none"
    /\ r_bufs = [p \in BufProtos |-> <<>>]
    /\ r_task = Idle
    /\ r_calls = <<>>
    /\ r_reply = <<>>
    /\ r_routed = <<>>
    /\ r_closed = ""
    /\ r_peer = [bf |-> "idle", first |-> FALSE, blocks |-> 0, answered |-> 0, noise |-> 0,
                 bf_msgs |-> <<>>]
    \* no other front-end is running
    /\ fe_pc = "off"
    /\ fe_tool = ""
    /\ fe_args = <<>>
    /\ fe_data = NoData
    /\ fe_file = None
    /\ fe_out = None
    /\ fe_result = "running"
    /\ fe_log = <<>>
    \* no function harness is running
    /\ pf_pc = "off"
    /\ pf_fn = ""
    /\ pf_in = <<>>
    /\ pf_out = <<>>
    \* no fetch-block command is running
    /\ oc_pc = "off"
    /\ oc_args = <<>>
    /\ oc_cands = <<>>
    /\ oc_tried = <<>>
    /\ oc_conn = None
    /\ oc_closed = <<>>
    /\ oc_sent = <<>>
    /\ oc_fetch = NoFetch
    /\ oc_replies = <<>>
    /\ oc_file = None
    /\ oc_exit = NoExit
    \* the relay of the scan is not modelled
    /\ pr_cs = "off"
    /\ pr_bf = NoBatch
    /\ pr_wire = <<>>
    /\ pr_chain = <<>>
    /\ pr_ptr = 0
    /\ pr_forks = 0
    /\ pr_viol = {}

\* a loop that sleeps after the last attempt as well
RtFailedAlwaysSleeps(o) ==
    /\ rt_last' = {o.v}
    /\ rt_pc' = "sleep"
    /\ UNCHANGED rt_result

\* koios.py 131-136, read_scroll.py 98-101: the call raised the Exception o.v
RtFailed(o) ==
    /\ rt_last' = {o.v}
    /\ IF rt_i >= rt_retries - 1
       THEN /\ rt_pc' = "end"
            /\ rt_result' = {KoiosError(o.v)}
       ELSE /\ rt_pc' = "sleep"
            /\ UNCHANGED rt_result

\* koios.py 128-130, read_scroll.py 95-97: the loop goes on and calls the request
RtCall ==
    /\ rt_pc = "call"
    /\ rt_i < rt_retries
    /\ \E o \in RtOutcomes :
          /\ rt_log' = Append(rt_log, [op |-> "call", kind |-> o.kind, units |-> 0])
          /\ CASE o.kind = "return" ->
                    /\ rt_pc' = "end"
                    /\ rt_result' = {[type |-> "return", v |-> o.v]}
                    /\ UNCHANGED rt_last
               [] o.kind = "base" ->
                    /\ rt_pc' = "end"
                    /\ rt_result' = {[type |-> "raise", exc |-> o.v, msg |-> ""]}
                    /\ UNCHANGED rt_last
               [] OTHER -> RtFailed(o)
    /\ UNCHANGED <<rt_fn, rt_retries, rt_i>>
    /\ UNCHANGED rtOthers

\* koios.py 135, read_scroll.py 101: time.sleep(backoff * (2**i)), then the
\* next turn of the loop
RtSleep ==
    /\ rt_pc = "sleep"
    /\ rt_log' = Append(rt_log, [op |-> "sleep", kind |-> "", units |-> TwoTo(rt_i)])
    /\ rt_i' = rt_i + 1
    /\ rt_pc' = "call"
    /\ UNCHANGED <<rt_fn, rt_retries, rt_last, rt_result>>
    /\ UNCHANGED rtOthers

\* koios.py 136, read_scroll.py 102: range(retries) is exhausted without a
\* call (retries <= 0)
RtExhausted ==
    /\ rt_pc = "call"
    /\ rt_i >= rt_retries
    /\ rt_pc' = "end"
    /\ rt_result' = {KoiosError(IF rt_fn = "with_retries" THEN "None" ELSE "unreachable")}
    /\ UNCHANGED <<rt_fn, rt_retries, rt_i, rt_last, rt_log>>
    /\ UNCHANGED rtOthers

RtNext ==
    \/ RtCall
    \/ RtSleep
    \/ RtExhausted

-----------------------------------------------------------------------------
(* lsview reconstruct-cip25 against a relay that follows the protocols *)
(*                                                                         *)
(* The relay keeps a chain and a read pointer for the connection.  It      *)
(* answers find_intersect, answers request_next with a roll-forward to the *)
(* next block, with await-reply at its tip, or with a roll-backward when   *)
(* it has switched to a fork; it serves a requested range as start-batch,  *)
(* block, batch-done, or refuses it with no-blocks.  Its frames reach the  *)
(* client in order through pr_wire, and conn.recv reads the first of them. *)
(* The relay notes in pr_viol every client message that arrives while the  *)
(* client does not have the agency of that mini-protocol.                  *)

\* blocks a relay's chain starts with, blocks a chain can hold, fork switches
MaxChainInit == 2
MaxChain == 3
MaxForks == 1

\* page 2 as a block of another fork carries it
BkP2Fork == MetaBlock(<<AssetP("P2", 2, HexTxt("B", 1, PlainLen, TRUE))>>)

\* the blocks a chain is made of; block n is at slot n + 1
PrBlocks == <<BkP1, BkP2, BkP2Fork, BkM, BkNone>>
PrSlot(n) == n + 1
PrHdr(n) == Hdr(PrSlot(n))
PrPoint(n) == (CHOOSE pt \in header_point(PrHdr(n)) : pt.type = "point").point

\* the chains the relay can have when the client connects
PrChains ==
    {c \in SeqsOf(DOMAIN PrBlocks, MaxChainInit) :
        c # <<>> /\ \A i, j \in 1..Len(c) : i # j => c[i] # c[j]}

\* the frame in which the relay writes message m of protocol p
PrFrame(p, m) == [p |-> p, payload |-> cbor_dumps(m)]

\* the payloads of the frames in which the relay writes message bytes b
PrSegments(b) == {<<b>>, <<BSlice(b, 0, 1), BSlice(b, 1, BLen(b))>>}

\* the client's request for block n
PrRangeFrame(n) == ls_send(BLOCK_FETCH, ls_request_range(PrPoint(n), PrPoint(n)))

\* frames of protocol p the relay has written that the client has not read
PrUnread(wire, p) == {i \in 1..Len(wire) : wire[i].p = p}

\* the relay receives frame f of the client; unread tells that replies of
\* BlockFetch are still on their way to the client
PrReceive(r, f, unread) ==
    IF f = ls_send(CHAIN_SYNC, cs_find_intersect(<<StartPoint>>))
    THEN IF r.cs = "idle" THEN [r EXCEPT !.cs = "intersect"]
         ELSE [r EXCEPT !.viol = @ \cup {"chainsync: find_intersect without agency"}]
    ELSE IF f = ls_send(CHAIN_SYNC, cs_request_next)
    THEN IF r.cs = "idle" THEN [r EXCEPT !.cs = "canawait"]
         ELSE [r EXCEPT !.viol = @ \cup {"chainsync: request_next without agency"}]
    ELSE IF f = ls_send(CHAIN_SYNC, cs_done)
    THEN IF r.cs = "idle" THEN [r EXCEPT !.cs = "done"]
         ELSE [r EXCEPT !.viol = @ \cup {"chainsync: done without agency"}]
    ELSE IF f = ls_send(BLOCK_FETCH, ls_client_done)
    THEN IF r.bf.st = "idle" /\ ~unread THEN [r EXCEPT !.bf = [st |-> "done", slot |-> 0]]
         ELSE [r EXCEPT !.viol = @ \cup {"blockfetch: client_done without agency"}]
    ELSE IF \E n \in DOMAIN PrBlocks : f = PrRangeFrame(n)
    THEN LET n == CHOOSE k \in DOMAIN PrBlocks : f = PrRangeFrame(k)
         IN  IF r.bf.st = "done"
             THEN [r EXCEPT !.viol = @ \cup {"blockfetch: request_range after client_done"}]
             ELSE IF r.bf.st = "idle" /\ ~unread
             THEN [r EXCEPT !.bf = [st |-> "busy", slot |-> PrSlot(n)]]
             ELSE [r EXCEPT !.viol = @ \cup {"blockfetch: request_range without agency"}]
    ELSE [r EXCEPT !.viol = @ \cup {"unknown message"}]

RECURSIVE PrReceiveAll(_, _, _)
PrReceiveAll(r, frames, unread) ==
    IF frames = <<>> THEN r
    ELSE PrReceiveAll(PrReceive(r, Head(frames), unread), Tail(frames), unread)

\* the client moves to state s: the relay receives what it has sent on the
\* way, while wire is still to be read
PrClientStep(s, wire) ==
    LET r == PrReceiveAll([cs |-> pr_cs, bf |-> pr_bf, viol |-> pr_viol],
                          SubSeq(s.sent, Len(sc_sent) + 1, Len(s.sent)),
                          PrUnread(wire, BLOCK_FETCH) # {})
    IN  /\ ScSet(s)
        /\ pr_cs' = r.cs
        /\ pr_bf' = r.bf
        /\ pr_viol' = r.viol

\* the protocol whose reply the command waits for, and what it does with
\* the frame it reads
PrExpected(pc) == IF pc \in {"intersect", "stream"} THEN CHAIN_SYNC ELSE BLOCK_FETCH
PrReply(s, f) ==
    CASE s.pc = "intersect" -> ScIntersectReply(s, f)
      [] s.pc = "stream" -> ScStreamReply(s, f)
      [] s.pc = "fetch1" -> ScFetchFirst(s, f)
      [] s.pc = "fetch" -> ScFetchStream(s, f)

PrInit ==
    /\ sc_pc = "start"
    /\ sc_desc = None
    /\ sc_open = TRUE
    /\ sc_sent = <<>>
    /\ sc_yielded = 0
    /\ sc_pages = <<>>
    /\ sc_manifest = None
    /\ sc_fetch = NoFetch
    /\ sc_file = None
    /\ sc_result = "running"
    /\ sc_last = NoReply
    /\ sc_noise = 0
    /\ sc_wait = 0
    /\ sc_idle = 0
    \* the codec harness is not running
    /\ cx_phase = "off"
    /\ cx_proto = 0
    /\ cx_len = 0
    /\ cx_now = 0
    /\ cx_ls = NoFrame
    /\ cx_ref = NoFrame
    /\ cx_segs = <<>>
    /\ cx_send = <<>>
    /\ cx_dec = NoFrame
    \* the connection is seen through what send and recv do
    /\ ls_pc = "off"
    /\ ls_writer = FALSE
    /\ ls_negotiated_version = None
    /\ ls_in = <<>>
    /\ ls_skew = FALSE
    /\ ls_eof = FALSE
    /\ ls_out = <<>>
    /\ ls_read = <<>>
    /\ ls_calls = <<>>
    \* no reference client exists
    /\ r_conn = "new"
    /\ r_connected = FALSE
    /\ r_version = None
    /\ r_writer = "none"
    /\ r_wire = <<>>
    /\ r_eof = FALSE
    /\ r_sent = <<>>
    /\ r_demux = "none"
    /\ r_bufs = [p \in BufProtos |-> <<>>]
    /\ r_task = Idle
    /\ r_calls = <<>>
    /\ r_reply = <<>>
    /\ r_routed = <<>>
    /\ r_closed = ""
    /\ r_peer = [bf |-> "idle", first |-> FALSE, blocks |-> 0, answered |-> 0, noise |-> 0,
                 bf_msgs |-> <<>>]
    \* no other front-end is running
    /\ fe_pc = "off"
    /\ fe_tool = ""
    /\ fe_args = <<>>
    /\ fe_data = NoData
    /\ fe_file = None
    /\ fe_out = None
    /\ fe_result = "running"
    /\ fe_log = <<>>
    \* no function harness is running
    /\ pf_pc = "off"
    /\ pf_fn = ""
    /\ pf_in = <<>>
    /\ pf_out = <<>>
    \* no fetch-block command is running
    /\ oc_pc = "off"
    /\ oc_args = <<>>
    /\ oc_cands = <<>>
    /\ oc_tried = <<>>
    /\ oc_conn = None
    /\ oc_closed = <<>>
    /\ oc_sent = <<>>
    /\ oc_fetch = NoFetch
    /\ oc_replies = <<>>
    /\ oc_file = None
    /\ oc_exit = NoExit
    \* the relay is idle in both mini-protocols; nothing is announced yet
    /\ pr_cs = "idle"
    /\ pr_bf = NoBatch
    /\ pr_wire = <<>>
    /\ pr_chain \in PrChains
    /\ pr_ptr = 0
    /\ pr_forks = 0
    /\ pr_viol = {}
    \* no retry loop is running
    /\ rt_pc = "off"
    /\ rt_fn = ""
    /\ rt_retries = 0
    /\ rt_i = 0
    /\ rt_last = None
    /\ rt_log = <<>>
    /\ rt_result = None

\* cli.py 122: cs.find_intersect sends its request
PrFindIntersect ==
    /\ sc_pc = "start"
    /\ PrClientStep([ScCur EXCEPT !.pc = "intersect",
                                  !.sent = Append(@, ls_send(CHAIN_SYNC,
                                                     cs_find_intersect(<<StartPoint>>)))],
                    pr_wire)
    /\ UNCHANGED <<sc_desc, sc_last, sc_noise, sc_wait, sc_idle>>
    /\ UNCHANGED <<pr_wire, pr_chain, pr_ptr, pr_forks>>
    /\ UNCHANGED prOthers

\* n2n_client.py 144-148 and the caller of conn.recv (chainsync.py 96-104,
\* 110-131, blockfetch.py 52-69): the next frame of the relay is read
PrRecv ==
    /\ sc_pc \in {"intersect", "stream", "fetch1", "fetch"}
    /\ pr_wire # <<>>
    /\ \E s \in PrReply(ScCur, Head(pr_wire)) : PrClientStep(s, Tail(pr_wire))
    /\ \E ty \in ScReplyTypes(PrExpected(sc_pc), Head(pr_wire)) : ScNote(ty)
    /\ pr_wire' = Tail(pr_wire)
    /\ UNCHANGED <<sc_desc, sc_noise, sc_wait, sc_idle>>
    /\ UNCHANGED <<pr_chain, pr_ptr, pr_forks>>
    /\ UNCHANGED prOthers

\* chainsync.py 112-114: nothing arrives within idle_timeout and
\* stream_headers returns
PrIdleTimeout ==
    /\ sc_pc = "stream"
    /\ pr_wire = <<>>
    /\ PrClientStep(ScAfterLoop(ScCur), pr_wire)
    /\ UNCHANGED <<sc_desc, sc_last, sc_noise, sc_wait, sc_idle>>
    /\ UNCHANGED <<pr_wire, pr_chain, pr_ptr, pr_forks>>
    /\ UNCHANGED prOthers

\* n2n_client.py 144-148: a recv outside stream_headers times out when
\* nothing arrives, and any recv fails when the relay closes the socket
PrRecvFails ==
    /\ sc_pc \in {"intersect", "stream", "fetch1", "fetch"}
    /\ \E e \in {"TimeoutError", "IncompleteReadError"} :
          /\ e = "TimeoutError" => sc_pc # "stream" /\ pr_wire = <<>>
          /\ PrClientStep(ScRaise(ScCur, e), pr_wire)
    /\ UNCHANGED <<sc_desc, sc_last, sc_noise, sc_wait, sc_idle>>
    /\ UNCHANGED <<pr_wire, pr_chain, pr_ptr, pr_forks>>
    /\ UNCHANGED prOthers

\* the relay answers find_intersect: the start point is on its chain or not
PrAnswerIntersect ==
    /\ sc_pc # "end"
    /\ pr_cs = "intersect"
    /\ \E m \in {L(<<U(5), StartPoint, Tip>>), L(<<U(6), Tip>>)} :
          pr_wire' = Append(pr_wire, PrFrame(CHAIN_SYNC, m))
    /\ pr_cs' = "idle"
    /\ UNCHANGED <<pr_bf, pr_chain, pr_ptr, pr_forks, pr_viol>>
    /\ UNCHANGED scVars
    /\ UNCHANGED prOthers

\* the relay answers request_next with the next block of its chain
PrRollForward ==
    /\ sc_pc # "end"
    /\ pr_cs \in {"canawait", "mustreply"}
    /\ pr_ptr < Len(pr_chain)
    /\ pr_wire' = Append(pr_wire, PrFrame(CHAIN_SYNC,
                                          L(<<U(2), PrHdr(pr_chain[pr_ptr + 1]), Tip>>)))
    /\ pr_ptr' = pr_ptr + 1
    /\ pr_cs' = "idle"
    /\ UNCHANGED <<pr_bf, pr_chain, pr_forks, pr_viol>>
    /\ UNCHANGED scVars
    /\ UNCHANGED prOthers

\* the relay is at its tip: it answers await-reply and keeps the agency
PrAwaitReply ==
    /\ sc_pc # "end"
    /\ pr_cs = "canawait"
    /\ pr_ptr = Len(pr_chain)
    /\ pr_wire' = Append(pr_wire, PrFrame(CHAIN_SYNC, L(<<U(1)>>)))
    /\ pr_cs' = "mustreply"
    /\ UNCHANGED <<pr_bf, pr_chain, pr_ptr, pr_forks, pr_viol>>
    /\ UNCHANGED scVars
    /\ UNCHANGED prOthers

\* a new block arrives at the relay while the client waits at the tip
PrExtend ==
    /\ sc_pc # "end"
    /\ pr_cs = "mustreply"
    /\ pr_ptr = Len(pr_chain)
    /\ Len(pr_chain) < MaxChain
    /\ \E n \in DOMAIN PrBlocks :
          /\ \A i \in 1..Len(pr_chain) : pr_chain[i] # n
          /\ pr_chain' = Append(pr_chain, n)
    /\ UNCHANGED <<pr_cs, pr_bf, pr_wire, pr_ptr, pr_forks, pr_viol>>
    /\ UNCHANGED scVars
    /\ UNCHANGED prOthers

\* the relay has switched to a fork that leaves its chain after p blocks:
\* it answers request_next with a roll-backward to that point
PrRollBackward ==
    /\ sc_pc # "end"
    /\ pr_cs \in {"canawait", "mustreply"}
    /\ pr_forks < MaxForks
    /\ \E p \in 0..(pr_ptr - 1) : \E n \in DOMAIN PrBlocks :
          /\ \A i \in 1..(p + 1) : pr_chain[i] # n
          /\ pr_chain' = Append(SubSeq(pr_chain, 1, p), n)
          /\ pr_ptr' = p
          /\ pr_wire' = Append(pr_wire, PrFrame(CHAIN_SYNC,
                            L(<<U(3), IF p = 0 THEN StartPoint ELSE PrPoint(pr_chain[p]),
                                Tip>>)))
    /\ pr_forks' = pr_forks + 1
    /\ pr_cs' = "idle"
    /\ UNCHANGED <<pr_bf, pr_viol>>
    /\ UNCHANGED scVars
    /\ UNCHANGED prOthers

\* the relay refuses the requested range
PrNoBlocks ==
    /\ sc_pc # "end"
    /\ pr_bf.st = "busy"
    /\ pr_wire' = Append(pr_wire, PrFrame(BLOCK_FETCH, MsgNoBlocks))
    /\ pr_bf' = NoBatch
    /\ UNCHANGED <<pr_cs, pr_chain, pr_ptr, pr_forks, pr_viol>>
    /\ UNCHANGED scVars
    /\ UNCHANGED prOthers

\* the relay serves the requested range: start-batch, ...
PrStartBatch ==
    /\ sc_pc # "end"
    /\ pr_bf.st = "busy"
    /\ pr_wire' = Append(pr_wire, PrFrame(BLOCK_FETCH, MsgStartBatch))
    /\ pr_bf' = [pr_bf EXCEPT !.st = "streaming"]
    /\ UNCHANGED <<pr_cs, pr_chain, pr_ptr, pr_forks, pr_viol>>
    /\ UNCHANGED scVars
    /\ UNCHANGED prOthers

\* ... the block of the range, in one frame or, as a message longer than a
\* segment, in two, ...
PrSendBlock ==
    /\ sc_pc # "end"
    /\ pr_bf.st = "streaming"
    /\ \E n \in DOMAIN PrBlocks : \E fs \in PrSegments(cbor_dumps(MsgBlock(PrBlocks[n]))) :
          /\ PrSlot(n) = pr_bf.slot
          /\ pr_wire' = pr_wire \o [i \in 1..Len(fs) |-> [p |-> BLOCK_FETCH, payload |-> fs[i]]]
    /\ pr_bf' = [pr_bf EXCEPT !.st = "sent"]
    /\ UNCHANGED <<pr_cs, pr_chain, pr_ptr, pr_forks, pr_viol>>
    /\ UNCHANGED scVars
    /\ UNCHANGED prOthers

\* ... and batch-done, which gives the agency back to the client
PrBatchDone ==
    /\ sc_pc # "end"
    /\ pr_bf.st = "sent"
    /\ pr_wire' = Append(pr_wire, PrFrame(BLOCK_FETCH, MsgBatchDone))
    /\ pr_bf' = NoBatch
    /\ UNCHANGED <<pr_cs, pr_chain, pr_ptr, pr_forks, pr_viol>>
    /\ UNCHANGED scVars
    /\ UNCHANGED prOthers

PrNext ==
    \/ PrFindIntersect
    \/ PrRecv
    \/ PrIdleTimeout
    \/ PrRecvFails
    \/ PrAnswerIntersect
    \/ PrRollForward
    \/ PrAwaitReply
    \/ PrExtend
    \/ PrRollBackward
    \/ PrNoBlocks
    \/ PrStartBatch
    \/ PrSendBlock
    \/ PrBatchDone

-----------------------------------------------------------------------------
(* Specifications *)

\* the MUX codec applied to drawn inputs
SpecMux == CxInit /\ [][CxNext]_vars

\* one lsview N2NConnection and its relay
SpecLs == LsInit /\ [][LsNext]_vars

\* one reference OuroborosClient and its relay
SpecRef == RefInit /\ [][RefNext]_vars

\* the CIP-25 scan of lsview
SpecScan == ScInit /\ [][ScNext]_vars

\* the scroll functions and the block parsers applied to drawn inputs
SpecPure == PfInit /\ [][PfNext]_vars

\* lsview tip, fetch-block and reconstruct-utxo, from the relay candidates to
\* the exit status
SpecCmd == OcInit /\ [][OcNext]_vars

\* the lsview commands that open a relay connection: tip, fetch-block and
\* reconstruct-utxo from the relay candidates on, reconstruct-cip25 from the
\* connection open_connection returned on
CliInit == OcInit \/ ScInit
CliNext == OcNext \/ ScNext
SpecCli == CliInit /\ [][CliNext]_vars

\* the retry loops; a loop that can take a step does take it
SpecRetry == RtInit /\ [][RtNext]_vars /\ WF_vars(RtNext)

\* reconstruct-cip25 of lsview and a relay that follows the protocols
SpecRelay == PrInit /\ [][PrNext]_vars

\* the write-after-verify part of the other front-ends
SpecFront == FeInit /\ [][FeNext]_vars

-----------------------------------------------------------------------------
(* Claims about the MUX codec (checked under SpecMux) *)

\* C2: MUX round trip. For every protocol id in 0..2^15-1 and every payload of
\* at most 12288 bytes, each decoder applied to the header of the frame its own
\* encoder built yields the same protocol id, mode initiator and length
\* len(payload), and the bytes after the header are the payload.
C2_MuxRoundTrip ==
    (cx_phase = "decoded" /\ cx_len <= MUX_MAX_SDU_N2N) =>
        /\ cx_dec.ls_ls.proto_id = cx_proto
        /\ cx_dec.ls_ls.initiator = TRUE
        /\ cx_dec.ls_ls.length = cx_len
        /\ cx_ls.payload = CxPayload
        /\ cx_dec.ref_ref.protocol_id = cx_proto
        /\ cx_dec.ref_ref.mode = MUX_MODE_INITIATOR
        /\ cx_ref.length = cx_len
        /\ cx_dec.ref_ref.payload = CxPayload

\* C2 witness: the largest protocol id with a payload of exactly 12288 bytes
\* has been encoded and decoded
C2_Witness ==
    cx_phase = "decoded" /\ cx_proto = Pow15 - 1 /\ cx_len = MUX_MAX_SDU_N2N

\* C3: bytes 4..5 carry the mode in the most significant bit and the protocol
\* id in the 15 least significant bits, so both encoders build the same bytes
\* 4..7 and each decoder recovers the protocol id the other encoder wrote.
C3_SameHeaderLayout ==
    cx_phase = "decoded" =>
        /\ cx_ls.mp = MUX_MODE_INITIATOR * Pow15 + cx_proto
        /\ cx_ref.mp = MUX_MODE_INITIATOR * Pow15 + cx_proto
        /\ <<cx_ls.mp, cx_ls.length>> = <<cx_ref.mp, cx_ref.length>>
        /\ cx_dec.ls_ref.proto_id = cx_proto
        /\ cx_dec.ref_ls.protocol_id = cx_proto

\* the frames all carry the same bytes 4..5
SameProtoMode(frames) == \A i, j \in 1..Len(frames) : frames[i].mp = frames[j].mp

\* what C4 asks of the frames one send emits for a payload
SendContract(frames, payload) ==
    /\ BLen(payload) <= MUX_MAX_SDU_N2N => Len(frames) = 1
    /\ BLen(payload) = MUX_MAX_SDU_N2N + 1 => Len(frames) = 2
    /\ \A i \in 1..Len(frames) :
          /\ frames[i] # StructError
          /\ frames[i].length = BLen(frames[i].payload)
          /\ frames[i].length <= MUX_MAX_SDU_N2N
    /\ SameProtoMode(frames)
    /\ BJoin([i \in 1..Len(frames) |-> frames[i].payload]) = payload

\* C4: send(protocol, payload) emits one frame for a payload of at most 12288
\* bytes and otherwise consecutive frames of the same (protocol, mode), each of
\* at most 12288 bytes with a true length field, whose payloads concatenate to
\* the original (12289 bytes give two frames).
C4_SendSplits ==
    cx_phase # "input" => SendContract(cx_send, CxPayload)

\* C4, the reference client's _send_protocol alone
C4_RefSendSplits ==
    cx_phase # "input" => SendContract(cx_segs, CxPayload)

-----------------------------------------------------------------------------
(* Claims about the lsview connection (checked under SpecLs) *)

\* the versions v for which frame f is a handshake frame (bytes 4..5 read as
\* section 4.A lays them out) carrying MsgAcceptVersion [1, v, data]
AcceptVersionOf(f) ==
    IF MuxSegment_decode(f, f.payload).protocol_id # HANDSHAKE THEN {}
    ELSE {r.val.v[2].v : r \in {q \in cbor_loads(f.payload) :
                                   /\ q.ok
                                   /\ q.val.k = "list"
                                   /\ Len(q.val.v) = 3
                                   /\ IsU(q.val.v[1], 1)
                                   /\ q.val.v[2].k = "uint"}}

\* the one frame a proposal of version 14 is
ProposalFrame ==
    WireFrame(HANDSHAKE, MUX_MODE_INITIATOR,
              cbor_dumps(L(<<U(0), Map(<<Pair(U(V14), VersionData)>>)>>)))

\* C1: open() sends one MsgProposeVersions [0, {14 => [magic, true, 0, false]}]
\* in a single handshake frame; once open() has ended, negotiated_version is
\* set, to the version of the reply, exactly when the relay's reply is a
\* handshake frame carrying MsgAcceptVersion, and on every other reply open()
\* has failed with negotiated_version unset.
C1_OpenHandshake ==
    /\ ls_out \in {<<>>, <<ProposalFrame>>}
    /\ ls_pc \in {"hs_wait", "ready"} => ls_out = <<ProposalFrame>>
    /\ ls_calls = <<>> => ls_negotiated_version = None
    /\ ls_calls # <<>> =>
          IF ls_read # <<>> /\ AcceptVersionOf(ls_read[1]) # {}
          THEN /\ ls_negotiated_version = AcceptVersionOf(ls_read[1])
               /\ ls_calls[1].result = "ok"
          ELSE /\ ls_negotiated_version = None
               /\ ls_calls[1].result # "ok"

\* payloads the recv(p) calls returned, in call order
LsReturned(p) ==
    LET Ok(c) == c.op = "recv" /\ c.proto = p /\ c.result = "ok"
        cs == SelectSeq(ls_calls, Ok)
    IN  [i \in 1..Len(cs) |-> cs[i].payload]

\* payloads of the frames read after the handshake that the client's own
\* header decoder attributes to protocol p, in the order they were read
LsFramesOf(p) ==
    LET Is(f) == mux_decode_header(f).proto_id = p
        fs == SelectSeq(Tail(ls_read), Is)
    IN  [i \in 1..Len(fs) |-> fs[i].payload]

\* C6 on the lsview connection, which keeps no queue: the payloads recv(p)
\* returned are exactly the payloads of protocol p's frames read from the
\* socket, in order (none lost, duplicated or reordered), whatever frames of
\* other protocols lie between them.
C6_LsFifoPerProtocol ==
    ls_read # <<>> =>
        \A p \in {CHAIN_SYNC, BLOCK_FETCH} : LsReturned(p) = LsFramesOf(p)

-----------------------------------------------------------------------------
(* Claims about the reference client (checked under SpecRef) *)

\* The handshake of the reference connect(): once connect() has ended, the
\* version is set, to the version of the reply, exactly when the reply is a
\* handshake frame carrying MsgAcceptVersion; otherwise connect() has failed.
RefConnectHandshake ==
    /\ r_conn # "new" /\ r_calls # <<>> /\ r_writer # "none" =>
          [r_sent[1] EXCEPT !.ts = 0] = ProposalFrame
    /\ r_calls = <<>> => r_version = None
    /\ r_calls # <<>> =>
          IF r_reply # <<>> /\ AcceptVersionOf(r_reply[1]) # {}
          THEN /\ r_version = AcceptVersionOf(r_reply[1])
               /\ r_calls[1].result = "ok"
          ELSE /\ r_version = None
               /\ r_calls[1].result # "ok"

\* payloads the _recv_protocol(p) calls returned, in call order
RefReturned(p) ==
    LET Ok(c) == c.op = "recv" /\ c.proto = p /\ c.result = "ok"
        cs == SelectSeq(r_calls, Ok)
    IN  [i \in 1..Len(cs) |-> cs[i].payload]

\* payloads of protocol p's segments, in the order the demultiplexer read them
RefRoutedOf(p) ==
    LET Is(seg) == seg.protocol_id = p
        ss == SelectSeq(r_routed, Is)
    IN  [i \in 1..Len(ss) |-> ss[i].payload]

\* payloads waiting in protocol p's queue
RefQueued(p) == [i \in 1..Len(r_bufs[p]) |-> r_bufs[p][i].payload]

\* Per-protocol FIFO of the reference demultiplexer: what _recv_protocol(p)
\* returned, followed by what waits in p's queue, is the sequence of p's
\* segments in the order they were read.
RefFifoPerProtocol ==
    \A p \in {CHAIN_SYNC, KEEP_ALIVE} : RefReturned(p) \o RefQueued(p) = RefRoutedOf(p)

\* b is the encoding of one whole CBOR item
Whole(b) == \E r \in cbor_loads(b) : r.ok /\ cbor_dumps(r.val) = b

\* C5: inbound reassembly. Every payload _recv_protocol hands to a driver is
\* one whole message (the concatenation of the message's frames), and no
\* driver fails to decode a fragment: a message the relay wrote as several
\* consecutive frames is never decoded one frame at a time.
C5_InboundReassembly ==
    \A i \in 1..Len(r_calls) :
        LET c == r_calls[i]
        IN  /\ c.op = "recv" /\ c.result = "ok" => Whole(c.payload)
            /\ c.op = "fetch_range" =>
                  /\ \A j \in 1..Len(c.read) : Whole(c.read[j])
                  /\ c.result \notin {"CBORDecodeEOF", "CBORDecodeError"}

\* the cookies of a KeepAlive request [0, cookie] held by payload
KeepAliveCookies(payload) ==
    {r.val.v[2] : r \in {q \in cbor_loads(payload) :
                            /\ q.ok
                            /\ q.val.k = "list"
                            /\ Len(q.val.v) = 2
                            /\ IsU(q.val.v[1], 0)}}

\* C7: keep-alive auto-response. For every KeepAlive request [0, cookie] the
\* demultiplexer has read, the connection has written [1, cookie] on the
\* KeepAlive protocol, and the request neither waits in a queue an
\* application recv reads nor was returned by one.
C7_KeepAliveAutoResponse ==
    \A i \in 1..Len(r_routed) :
        r_routed[i].protocol_id = KEEP_ALIVE =>
            \A cookie \in KeepAliveCookies(r_routed[i].payload) :
                /\ \E j \in 1..Len(r_sent) :
                      /\ r_sent[j].mp = KEEP_ALIVE
                      /\ r_sent[j].payload = keep_alive_response(cookie)
                /\ \A k \in 1..Len(r_bufs[KEEP_ALIVE]) :
                      r_bufs[KEEP_ALIVE][k].payload # r_routed[i].payload
                /\ \A k \in 1..Len(r_calls) :
                      r_calls[k].payload # r_routed[i].payload

\* C8: cancellation. A recv that was blocked on an empty queue when the
\* connection closed (disconnect() was called, or the demultiplexer stopped
\* on the relay's EOF) ends with a connection-closed error, and a recv
\* started after the close returns no payload.
C8_Cancellation ==
    \A i \in 1..Len(r_calls) :
        LET c == r_calls[i]
        IN  c.op \in {"recv", "fetch_range"} =>
               /\ c.closed_during => c.result = "ConnectionClosed"
               /\ c.closed_at_start => c.result # "ok"

\* the capacity a bounded inbound queue would have
QueueCapacity == 4

\* C9: each per-protocol inbound queue holds at most a fixed number of
\* payloads that were enqueued and not yet received.
C9_BoundedQueues ==
    \A p \in DOMAIN r_bufs : Len(r_bufs[p]) <= QueueCapacity

\* fetch_block_range calls made so far, the one in progress included
FetchStarted ==
    Cardinality({i \in 1..Len(r_calls) : r_calls[i].op = "fetch_range"})
    + (IF r_task.op = "fetch_range" THEN 1 ELSE 0)

IsMsgBlock(m) == m.k = "list" /\ Len(m.v) = 2 /\ IsU(m.v[1], 4)

\* C10: BlockFetch range. Each fetch_block_range writes exactly one
\* MsgRequestRange. For the first call on a connection that did not time
\* out, with ms the BlockFetch messages the relay wrote: if ms starts with
\* [3] the call returns the empty list; if ms starts with [2], followed by
\* [4, body] messages and then [5], the call returns exactly those bodies in
\* arrival order and has read exactly the frames up to [5].
C10_FetchRange ==
    /\ RequestsSent = FetchStarted
    /\ Len(r_calls) >= 2 /\ r_calls[2].op = "fetch_range"
          /\ r_calls[2].result # "TimeoutError" =>
          LET c == r_calls[2]
              ms == r_peer.bf_msgs
          IN  /\ ms # <<>> /\ ms[1] = MsgNoBlocks =>
                    /\ c.result = "ok"
                    /\ c.blocks = <<>>
                    /\ c.read = <<cbor_dumps(MsgNoBlocks)>>
              /\ ms # <<>> /\ ms[1] = MsgStartBatch =>
                    \A j \in 2..Len(ms) :
                        (ms[j] = MsgBatchDone /\ \A k \in 2..(j - 1) : IsMsgBlock(ms[k])) =>
                            /\ c.result = "ok"
                            /\ c.blocks = [k \in 1..(j - 2) |-> parse_block(ms[k + 1].v[2])]
                            /\ BJoin(c.read) = BJoin([k \in 1..j |-> cbor_dumps(ms[k])])

-----------------------------------------------------------------------------
(* The CIP-25 scan of lsview *)

ReqNextFrame == ls_send(CHAIN_SYNC, cs_request_next)

\* how many of the frames in sent are frame f
CountOf(sent, f) == Cardinality({i \in 1..Len(sent) : sent[i] = f})

\* the frames in sent that carry a BlockFetch request_range
RangeRequests(sent) ==
    {i \in 1..Len(sent) :
        \E h \in {Hdr(5)} : \E pt \in header_point(h) :
            pt.type = "point" /\ sent[i] = ls_send(BLOCK_FETCH, ls_request_range(pt.point, pt.point))}

\* C11: fetch_block_body(point) returns None when the peer answers no-blocks
\* or the batch holds no MsgBlock, and otherwise the FIRST block body of the
\* batch, also when more than one MsgBlock comes before batch-done.
C11_FetchBlockFirst ==
    [][(sc_pc \in {"fetch1", "fetch"} /\ sc_fetch'.done) => sc_fetch'.body = sc_fetch.first]_vars

\* this step sends a request_next
SendsNext == CountOf(sc_sent', ReqNextFrame) > CountOf(sc_sent, ReqNextFrame)

\* this step is stream_headers reading a reply other than a roll-forward
ReadsInStream == sc_pc = "stream" /\ sc_noise' = sc_noise + 1

\* C12: after an await-reply [1] the client sends no further request_next and
\* keeps waiting in stream_headers; a request_next is only sent when the one
\* before it was answered by a reply other than await-reply, so at most one
\* request_next is unanswered at any moment.
C12_AwaitReply ==
    [][/\ (ReadsInStream /\ sc_last'.type = "await_reply")
            => (sc_sent' = sc_sent /\ sc_pc' = "stream" /\ sc_result' = "running"
                /\ sc_yielded' = sc_yielded)
       /\ SendsNext
            => /\ CountOf(sc_sent', ReqNextFrame) = CountOf(sc_sent, ReqNextFrame) + 1
               /\ sc_pc = "stream" => (ReadsInStream /\ sc_last'.type # "await_reply")]_vars

\* an await-reply was read and the client waits on its one request_next
C12_Witness ==
    /\ sc_pc = "stream"
    /\ sc_last = [at |-> "stream", type |-> "await_reply"]
    /\ CountOf(sc_sent, ReqNextFrame) = 1

\* C13: when the relay answers request_next with [3, point_back, tip], the
\* stream yields nothing and raises nothing, the client sends the next
\* request_next, and the scan goes on with what it has collected.
C13_Rollback ==
    [][(ReadsInStream /\ sc_last'.type = "roll_backward")
          => /\ sc_yielded' = sc_yielded
             /\ sc_result' = "running"
             /\ sc_open'
             /\ sc_pc' = "stream"
             /\ sc_sent' = Append(sc_sent, ReqNextFrame)
             /\ sc_pages' = sc_pages
             /\ sc_manifest' = sc_manifest]_vars

\* a rollback was read during a scan that had collected pages, and the scan
\* waits for the next header
C13_Witness ==
    /\ sc_pc = "stream"
    /\ sc_last = [at |-> "stream", type |-> "roll_backward"]
    /\ sc_pages # <<>>
    /\ sc_sent[Len(sc_sent)] = ReqNextFrame

\* C14: stream_headers yields at most max_headers pairs, and it has ended
\* once idle_timeout has passed without a roll-forward being read, whatever
\* await-reply or roll-backward messages the peer sends meanwhile.
C14_StreamTerminates ==
    /\ sc_yielded <= MaxScanBlocks
    /\ sc_pc = "stream" => sc_idle < IdleTimeout

\* the last reply read was not one the server may send in that protocol state
UnexpectedReply ==
    \/ sc_last.at = "intersect"
          /\ sc_last.type \in {"await_reply", "roll_forward", "roll_backward", "unknown"}
    \/ sc_last.at = "stream"
          /\ sc_last.type \in {"intersect_found", "intersect_not_found", "unknown"}
    \/ sc_last.at = "fetch1" /\ sc_last.type \in {"block", "batch_done", "unknown"}
    \/ sc_last.at = "fetch" /\ sc_last.type \in {"start_batch", "no_blocks", "unknown"}

\* C15: a ChainSync or BlockFetch reply that the server may not send in the
\* current protocol state is fatal: the command has ended with an error and
\* the connection is closed.
C15_UnexpectedFatal ==
    UnexpectedReply => (sc_pc = "end" /\ ~sc_open /\ sc_result \notin {"running", "ok"})

\* find_intersect did not return intersect_found
IntersectFailed ==
    \/ sc_last.at = "intersect" /\ sc_last.type # "intersect_found"
    \/ sc_pc = "end" /\ sc_last = NoReply

\* C16: if find_intersect([start_point]) does not return intersect_found the
\* reconstruction fails: no request_next and no BlockFetch request was sent,
\* no output file is written and the connection is closed.
C16_NoIntersect ==
    IntersectFailed
      => /\ sc_pc = "end"
         /\ sc_result \notin {"running", "ok"}
         /\ CountOf(sc_sent, ReqNextFrame) = 0
         /\ RangeRequests(sc_sent) = {}
         /\ sc_file = None
         /\ ~sc_open

\* the relay answered find_intersect with intersect_not_found
C16_Witness ==
    /\ sc_last = [at |-> "intersect", type |-> "intersect_not_found"]
    /\ sc_pc = "end"
    /\ sc_sent = <<ls_send(CHAIN_SYNC, cs_find_intersect(<<StartPoint>>))>>

\* the manifest the scan holds declares total_pages = n, n a page count, and
\* pages with at least n distinct asset names are collected
StopCondition ==
    \E m \in sc_manifest : \E n \in m.total_pages :
        /\ n >= 1
        /\ Cardinality({sc_pages[i].asset.asset_name : i \in 1..Len(sc_pages)}) >= n

\* this step is the return of fetch_block_body and the rest of the loop body
FetchReturns == sc_pc \in {"fetch1", "fetch"} /\ sc_fetch'.done

\* this step ends with an exception leaving the try block
StepRaises == sc_pc' = "end" /\ sc_sent' = sc_sent

\* C17: as soon as the manifest declares total_pages = n and pages with at
\* least n distinct asset names are collected, the scan is over: no further
\* request_next, no further block fetch. Before that the scan goes on after
\* every block, up to max_blocks headers.
C17_EarlyStop ==
    [][/\ StopCondition'
            => /\ sc_pc' = "end"
               /\ ~SendsNext
               /\ RangeRequests(sc_sent') = RangeRequests(sc_sent)
       /\ (FetchReturns /\ ~StepRaises /\ ~StopCondition' /\ sc_yielded < MaxScanBlocks)
            => (sc_pc' = "stream" /\ SendsNext)]_vars

\* the scan stopped before max_blocks headers because the pages were complete
C17_Witness ==
    /\ StopCondition
    /\ sc_pc = "end"
    /\ sc_yielded < MaxScanBlocks
    /\ sc_result = "ok"

\* the digest text d names the SHA-256 of the bytes b
DigestMatches(d, b) == str_lower(d) = sha256_hex(b)

\* C18: whenever the CIP-25 reconstruction gives a result, every digest that
\* was supplied matches: manifest.sha256_gz the concatenated page bytes,
\* manifest.sha256 and the catalog entry's expected sha256 the decoded bytes.
C18_DigestsMatch ==
    sc_result = "ok"
      => \A b \in sc_file :
            /\ \A m \in sc_manifest :
                  /\ \A d \in m.sha256_gz : DigestMatches(d, reconstruct_pages(sc_pages))
                  /\ \A d \in m.sha256 : DigestMatches(d, b)
            /\ \A d \in sc_desc : DigestMatches(d, b)

\* the same for the digests of the manifest alone
ManifestDigestsMatch ==
    sc_result = "ok"
      => /\ sc_file # None
         /\ \A b \in sc_file : \A m \in sc_manifest :
               /\ \A d \in m.sha256_gz : DigestMatches(d, reconstruct_pages(sc_pages))
               /\ \A d \in m.sha256 : DigestMatches(d, b)

\* a reconstruction whose manifest digests were checked and matched
ManifestDigestsChecked ==
    /\ sc_result = "ok"
    /\ \E m \in sc_manifest : m.sha256 # None /\ m.sha256_gz # None

-----------------------------------------------------------------------------
(* The other front-ends *)

FeFailed == fe_file = None /\ fe_out = None /\ fe_result \notin {"ok", "running"}

\* C19: on the inline-datum path, when the descriptor provides
\* expected_sha256, the bytes written or returned have that SHA-256; when
\* the datum's SHA-256 differs the run fails and produces no output.
C19_DatumDigest ==
    (fe_tool \in {"utxo", "koios"} /\ fe_pc = "end")
      => \A d \in fe_args.expected : \A b \in fe_data.out \cup fe_file \cup fe_out :
            DigestMatches(d, b) \/ FeFailed

\* the same for read_scroll.py alone
KoiosDatumDigest ==
    (fe_tool = "koios" /\ fe_pc = "end")
      => \A d \in fe_args.expected : \A b \in fe_data.out \cup fe_file \cup fe_out :
            DigestMatches(d, b) \/ FeFailed

\* read_scroll.py refused a datum whose SHA-256 is not the expected one
KoiosRefused ==
    /\ fe_tool = "koios"
    /\ fe_pc = "end"
    /\ FeFailed
    /\ \E d \in fe_args.expected : \E b \in fe_data.out : ~DigestMatches(d, b)

\* a digest viewer.py found in the manifest does not match the bytes it is for
ViewerMismatch ==
    \/ \E d \in pick_hash(fe_args.meta, GzKeys) : \E b \in fe_data.blob : ~DigestMatches(d, b)
    \/ \E d \in pick_hash(fe_args.meta, RawKeys) : \E b \in fe_data.out : ~DigestMatches(d, b)

\* C20: the output file is written only after every supplied hash check has
\* passed: a run of viewer.py in which a digest does not match ends with a
\* failure and no output file.
C20_WriteAfterVerify ==
    (fe_tool = "viewer" /\ fe_pc = "end" /\ ViewerMismatch)
      => (fe_file = None /\ fe_result \notin {"ok", "running"})

-----------------------------------------------------------------------------
(* The scroll functions and the block parsers (checked under SpecPure) *)

\* the index a page record declares: the number under its i, index or page key
DeclaredIndex(a) ==
    IF MapHas(a.fields, Txt("i")) THEN as_int(FieldGet(a.fields, "i"))
    ELSE IF MapHas(a.fields, Txt("index")) THEN as_int(FieldGet(a.fields, "index"))
    ELSE as_int(FieldGet(a.fields, "page"))

\* the order of the pages: indexed pages by index, then by name; pages
\* without an index after them, by name
OrderKey(a) ==
    IF DeclaredIndex(a) # None
    THEN <<0, CHOOSE i \in DeclaredIndex(a) : TRUE, NameOrd(a.asset_name)>>
    ELSE <<1, 0, NameOrd(a.asset_name)>>
OrderLess(a, b) ==
    LET x == OrderKey(a)
        y == OrderKey(b)
    IN  \/ x[1] < y[1]
        \/ x[1] = y[1] /\ x[2] < y[2]
        \/ x[1] = y[1] /\ x[2] = y[2] /\ x[3] < y[3]

\* the assets of a list in that order
InOrder(assets) ==
    LET S == {assets[i] : i \in 1..Len(assets)}
        Rank(a) == Cardinality({b \in S : OrderLess(b, a)})
    IN  [r \in 1..Len(assets) |-> CHOOSE a \in S : Rank(a) = r - 1]

\* the bytes of the segments of a page record
SegmentBytes(a) ==
    BJoin(payload_segments(PyOr(PyOr(FieldGet(a.fields, "payload"),
                                     FieldGet(a.fields, "segments")),
                                FieldGet(a.fields, "seg"))))

RECURSIVE OrderedBytes(_)
OrderedBytes(ordered) ==
    IF ordered = <<>> THEN NoBytes
    ELSE BCat(SegmentBytes(Head(ordered)), OrderedBytes(Tail(ordered)))

\* a segment of the record is hex text with a defect
BadHex(a) ==
    /\ MapHas(a.fields, Txt("payload"))
    /\ LET pl == MapGet(a.fields, Txt("payload"))
       IN  /\ pl.k = "list"
           /\ \E i \in 1..Len(pl.v) : pl.v[i].k = "hextext" /\ ~pl.v[i].v.well

\* C21: the pages are concatenated with the indexed pages first, in ascending
\* index (index 0 included) and by asset_name within one index, and the pages
\* without an index after them by asset_name; so the bytes do not depend on
\* the order in which the pages were collected.
C21_PageOrder ==
    (pf_pc = "done" /\ pf_fn = "reconstruct_pages"
        /\ \A i \in 1..Len(pf_in.assets) : ~BadHex(pf_in.assets[i]))
      => pf_out = OrderedBytes(InOrder(pf_in.assets))

\* without index 0 and without two pages of one index, the pages are
\* concatenated in that order
PageOrderPositive ==
    (pf_pc = "done" /\ pf_fn = "reconstruct_pages"
        /\ \A i \in 1..Len(pf_in.assets) :
              /\ ~BadHex(pf_in.assets[i])
              /\ DeclaredIndex(pf_in.assets[i]) # {0}
              /\ \A j \in 1..Len(pf_in.assets) :
                    (j # i /\ DeclaredIndex(pf_in.assets[i]) # None)
                      => DeclaredIndex(pf_in.assets[j]) # DeclaredIndex(pf_in.assets[i]))
      => pf_out = OrderedBytes(InOrder(pf_in.assets))

\* two of the page records declare the same index
DuplicateIndex(assets) ==
    \E i, j \in 1..Len(assets) :
        /\ i # j
        /\ DeclaredIndex(assets[i]) # None
        /\ DeclaredIndex(assets[i]) = DeclaredIndex(assets[j])

\* C22: when two collected pages carry the same index, the reconstruction
\* fails with an error and returns no bytes.
C22_DuplicateIndex ==
    (pf_pc = "done" /\ pf_fn = "reconstruct_cip25" /\ DuplicateIndex(pf_in.assets))
      => pf_out.type = "error"

\* the bytes begin with the gzip magic 0x1F 0x8B
GzipMagic(b) == BLen(b) >= 2 /\ BAt(b, 0) = 31 /\ BAt(b, 1) = 139

\* maybe_gunzip returned the gzip decompression of b, or raised because b is
\* no gzip stream
Inflates(b, out) ==
    IF gzip_decompress(b) = {} THEN ~out.ok
    ELSE out.ok /\ out.decoded \in gzip_decompress(b)

\* C23: the decoded bytes are the gzip decompression of the concatenated bytes
\* when the codec is "gzip" or when the bytes begin with 0x1F 0x8B, whatever
\* the codec is; in all other cases they are the concatenated bytes.
C23_Decompression ==
    (pf_pc = "done" /\ pf_fn = "maybe_gunzip")
      => IF pf_in.codec = {Txt("gzip")} \/ GzipMagic(pf_in.b)
         THEN Inflates(pf_in.b, pf_out)
         ELSE pf_out.ok /\ pf_out.decoded = pf_in.b

\* the same when the manifest names no codec or names gzip
GunzipKnownCodec ==
    (pf_pc = "done" /\ pf_fn = "maybe_gunzip" /\ pf_in.codec \in {None, {Txt("gzip")}})
      => IF pf_in.codec = {Txt("gzip")} \/ GzipMagic(pf_in.b)
         THEN Inflates(pf_in.b, pf_out)
         ELSE pf_out.ok /\ pf_out.decoded = pf_in.b

\* the record is the manifest: by the declared name, or by one of the keys
ManifestKeys == {"codec", "content_type", "sha256", "sha", "sha256_gz", "sha_gz"}
ManifestRecord(a, manifest_asset) ==
    \/ a.asset_name \in manifest_asset
    \/ \E f \in ManifestKeys : MapHas(a.fields, Txt(f))

\* the record carries a payload
PayloadRecord(a) == \E f \in {"payload", "segments", "seg"} : MapHas(a.fields, Txt(f))

\* classify_assets returned the record among the pages, or as the manifest
AmongPages(a, out) == \E i \in 1..Len(out.pages) : out.pages[i].asset = a
AsManifest(a, out) == \E m \in out.manifest : m.asset = a

\* C24: classify_assets treats a record as the manifest exactly when its name
\* is the declared manifest name or it has one of the manifest keys, whether
\* or not a name was declared; any other record is a page only when it
\* carries a payload, and is otherwise neither.
C24_Classification ==
    (pf_pc = "done" /\ pf_fn = "classify_assets")
      => \A i \in 1..Len(pf_in.assets) :
            LET a == pf_in.assets[i]
            IN  IF ManifestRecord(a, pf_in.manifest_asset)
                THEN ~AmongPages(a, pf_out) /\ pf_out.manifest # None
                ELSE /\ ~AsManifest(a, pf_out)
                     /\ AmongPages(a, pf_out) <=> PayloadRecord(a)

\* without a declared name, a record with a manifest key is the manifest and
\* a record with a payload is a page
ClassifyUndeclared ==
    (pf_pc = "done" /\ pf_fn = "classify_assets" /\ pf_in.manifest_asset = None)
      => \A i \in 1..Len(pf_in.assets) :
            LET a == pf_in.assets[i]
            IN  IF ManifestRecord(a, None)
                THEN ~AmongPages(a, pf_out) /\ pf_out.manifest # None
                ELSE ~AsManifest(a, pf_out) /\ (PayloadRecord(a) => AmongPages(a, pf_out))

\* C25: a page segment that is hex text of odd length or with a character
\* that is no hex digit is rejected: the reconstruction with this page fails
\* with an error.
C25_BadHexRejected ==
    (pf_pc = "done" /\ pf_fn = "reconstruct_cip25"
        /\ \E i \in 1..Len(pf_in.assets) : BadHex(pf_in.assets[i]))
      => pf_out.type = "error"

\* the keys of a list of dict entries that are no transaction index below n
OutOfRange(items, n) ==
    {i \in 1..Len(items) : ~(items[i].key.k = "uint" /\ items[i].key.v < n)}

\* C26: in every block a parser returns, every transaction index that
\* carries auxiliary data or metadata is in [0, len(tx_bodies)), and there
\* are at most len(tx_bodies) of them.
C26_AuxIndices ==
    /\ (pf_pc = "done" /\ pf_fn = "ls_parse_block" /\ pf_out.type = "block")
         => /\ \A i \in 1..Len(pf_out.txs) :
                  pf_out.txs[i].index \in 0..(Len(pf_out.tx_bodies) - 1)
            /\ Len(pf_out.txs) <= Len(pf_out.tx_bodies)
    /\ (pf_pc = "done" /\ pf_fn = "orig_parse_block")
         => /\ OutOfRange(pf_out.auxiliary_data, Len(pf_out.transactions)) = {}
            /\ OutOfRange(pf_out.tx_metadata, Len(pf_out.transactions)) = {}
            /\ Len(pf_out.auxiliary_data) <= Len(pf_out.transactions)

\* the same for the lsview parser alone
LsAuxIndices ==
    (pf_pc = "done" /\ pf_fn = "ls_parse_block" /\ pf_out.type = "block")
      => /\ \A i \in 1..Len(pf_out.txs) :
               pf_out.txs[i].index \in 0..(Len(pf_out.tx_bodies) - 1)
         /\ Len(pf_out.txs) <= Len(pf_out.tx_bodies)

\* C27: the block parser is total: for input that is no block, or only partly
\* one, it raises nothing and returns the partially parsed block, and the
\* block it returns retains the raw CBOR of the body it was given.
C27_ParserTotal ==
    /\ (pf_pc = "done" /\ pf_fn = "ls_parse_block")
         => /\ pf_out.type # "error"
            /\ "raw_cbor" \in DOMAIN pf_out
            /\ pf_out.raw_cbor = pf_in.body
    /\ (pf_pc = "done" /\ pf_fn = "orig_parse_block")
         => pf_out.raw_cbor = IF IsBytes(pf_in.block_cbor) THEN AsBytes(pf_in.block_cbor)
                              ELSE cbor_dumps(pf_in.block_cbor)

\* the same for the reference parser alone
OrigParserTotal ==
    (pf_pc = "done" /\ pf_fn = "orig_parse_block")
      => pf_out.raw_cbor = IF IsBytes(pf_in.block_cbor) THEN AsBytes(pf_in.block_cbor)
                           ELSE cbor_dumps(pf_in.block_cbor)

-----------------------------------------------------------------------------
(* lsview open_connection and fetch-block (checked under SpecCmd) *)

\* the endpoints the arguments list, --relay first, then the topology file's
Listed(args) ==
    (IF args.relay # "" THEN <<<<args.relay, args.port>>>> ELSE <<>>)
    \o (IF args.topology # None THEN CHOOSE t \in args.topology : TRUE ELSE <<>>)

\* the distinct members of a list, in the order of their first appearance
Distinct(q) ==
    LET First(i) == \A j \in 1..(i - 1) : q[j] # q[i]
        idx == {i \in 1..Len(q) : First(i)}
        Nth(n) == CHOOSE i \in idx : Cardinality({j \in idx : j < i}) = n - 1
    IN  [n \in 1..Cardinality(idx) |-> q[Nth(n)]]

\* the relay of a tried endpoint accepted the proposal: it answered
\* MsgAcceptVersion on the handshake protocol
Accepted(t) ==
    /\ t.act.kind = "frame"
    /\ \E m \in {MUX_MODE_INITIATOR, MUX_MODE_RESPONDER}, v \in {V14, V15} :
          t.act.frame = WireFrame(HANDSHAKE, m, cbor_dumps(MsgAcceptVersion(v)))

\* the endpoints are tried in list order, each once; the connection of an
\* endpoint that failed is closed; failure is reported after all have failed
TriedInOrder ==
    LET all == Distinct(Listed(oc_args))
    IN  /\ Len(oc_tried) <= Len(all)
        /\ \A i \in 1..Len(oc_tried) : oc_tried[i].ep = all[i]
        /\ \A i \in 1..Len(oc_tried) :
              oc_tried[i].result # "ok" => (Len(oc_closed) >= i /\ oc_closed[i] = oc_tried[i].ep)
        /\ (oc_pc = "end" /\ oc_conn = None)
              => (Len(oc_tried) = Len(all) /\ \A i \in 1..Len(all) : oc_tried[i].result # "ok")

\* C28: open_connection tries the distinct endpoints in list order, each at
\* most once; an endpoint that fails is closed and the next one is tried; the
\* connection returned is the one to the first endpoint in order whose
\* handshake is accepted, and failure is reported only after every endpoint
\* has failed.
C28_Failover ==
    oc_pc # "off"
      => /\ TriedInOrder
         /\ \A i \in 1..Len(oc_tried) :
               Accepted(oc_tried[i]) <=> (oc_conn = {oc_tried[i].ep} /\ i = Len(oc_tried))

\* the same with the outcome of conn.open() in the place of the relay's answer
FailoverByOpen ==
    oc_pc # "off"
      => /\ TriedInOrder
         /\ \A i \in 1..Len(oc_tried) :
               oc_tried[i].result = "ok" <=> (oc_conn = {oc_tried[i].ep} /\ i = Len(oc_tried))

\* open_connection went past an endpoint that failed and returned the next
FailoverReached ==
    /\ Len(oc_tried) = 2
    /\ oc_tried[1].result # "ok"
    /\ oc_closed # <<>>
    /\ oc_conn = {oc_tried[2].ep}

\* the connection was closed
OcClosed == \A c \in oc_conn : \E i \in 1..Len(oc_closed) : oc_closed[i] = c

\* C29: fetch-block for a point the relay does not have (it answers
\* MsgNoBlocks) ends with exit status 2 and the message "Block not found on
\* relay for this point.", writes no file and closes the connection; for a
\* point the relay has, it writes the one fetched block body and exits 0.
C29_FetchBlockExit ==
    (oc_pc = "end" /\ oc_conn # None /\ oc_args.cmd = "fetch-block")
      => /\ oc_replies = <<"no_blocks">>
              => /\ oc_exit = [status |-> 2, message |-> NotFoundMessage]
                 /\ oc_file = None
                 /\ OcClosed
         /\ (oc_replies = <<"start_batch", "block", "batch_done">> /\ oc_args.out # None)
              => /\ oc_exit.status = 0
                 /\ oc_file = oc_fetch.first
                 /\ OcClosed

\* the same with the exit status a SystemExit with a message gives
FetchBlockOutcome ==
    (oc_pc = "end" /\ oc_conn # None /\ oc_args.cmd = "fetch-block")
      => /\ oc_replies = <<"no_blocks">>
              => /\ oc_exit = [status |-> 1, message |-> NotFoundMessage]
                 /\ oc_file = None
                 /\ OcClosed
         /\ (oc_replies = <<"start_batch", "block", "batch_done">> /\ oc_args.out # None)
              => /\ oc_exit.status = 0
                 /\ oc_file = oc_fetch.first
                 /\ OcClosed

\* fetch-block ended after MsgNoBlocks, and after a batch of one block
FetchBlockNotFound ==
    oc_pc = "end" /\ oc_conn # None /\ oc_args.cmd = "fetch-block" /\ oc_replies = <<"no_blocks">>
FetchBlockWritten ==
    /\ oc_pc = "end"
    /\ oc_args.cmd = "fetch-block"
    /\ oc_replies = <<"start_batch", "block", "batch_done">>
    /\ oc_file # None

-----------------------------------------------------------------------------
(* ChainSync agency in the scan (checked under SpecScan) *)

DoneFrame == ls_send(CHAIN_SYNC, cs_done)
SentDone(sent) == \E i \in 1..Len(sent) : sent[i] = DoneFrame

\* a find_intersect or a request_next was sent and the reply that answers it
\* has not been read: the relay has the agency
AwaitingReply == sc_pc \in {"intersect", "stream"}

\* C30: the client sends MsgDone [7] only when ChainSync is Idle, that is
\* when no request_next awaits its reply, however stream_headers ended (max
\* headers, early stop, idle timeout), and sends no ChainSync message after it.
C30_DoneWhenIdle ==
    [][/\ (~SentDone(sc_sent) /\ SentDone(sc_sent')) => ~AwaitingReply
       /\ \A i \in 1..Len(sc_sent') : sc_sent'[i] = DoneFrame => i = Len(sc_sent')]_vars

\* MsgDone is the last frame the client sends
NothingAfterDone ==
    \A i \in 1..Len(sc_sent) : sc_sent[i] = DoneFrame => i = Len(sc_sent)

\* MsgDone was sent after the scan stopped early or reached max_headers
DoneSentIdle == SentDone(sc_sent) /\ sc_result = "ok" /\ sc_wait = 0 /\ sc_idle = 0

-----------------------------------------------------------------------------
(* Claims about the digest checks of reconstruct_cip25 (checked under SpecPure) *)

\* the manifest and the concatenated page bytes of a drawn scroll
MfManifest == CHOOSE m \in classify_assets(pf_in.assets, None).manifest : TRUE
MfGzBytes == reconstruct_pages(classify_assets(pf_in.assets, None).pages)
MfReconstructed == pf_pc = "done" /\ pf_fn = "reconstruct_cip25_manifest"
GzDigestDiffers ==
    /\ Truthy(MfManifest.sha256_gz)
    /\ sha256_hex(MfGzBytes) # str_lower(CHOOSE d \in MfManifest.sha256_gz : TRUE)
GzMismatchError == Err("ValueError: gzip sha256 mismatch")

\* C32: when manifest.sha256_gz is present and differs from the SHA-256 of the
\* concatenated page bytes, reconstruct_cip25 fails with the compressed-digest
\* integrity error, whatever the bytes are; a decompression error occurs only
\* for bytes whose compressed digest matched or was not supplied
C32_GzDigestFirst ==
    MfReconstructed =>
        /\ GzDigestDiffers => pf_out = GzMismatchError
        /\ pf_out = Err("BadGzipFile") => ~GzDigestDiffers

\* what the code does: the compressed digest is compared after maybe_gunzip
\* has returned, so a differing digest is reported exactly when the bytes
\* inflate or are not inflated at all
GzDigestAfterGunzip ==
    (MfReconstructed /\ GzDigestDiffers) =>
        IF maybe_gunzip(MfGzBytes, MfManifest.codec).ok
        THEN pf_out = GzMismatchError
        ELSE pf_out = Err("BadGzipFile")

\* a scroll whose compressed digest differs and whose bytes do not inflate
GzDigestDiffersReached ==
    MfReconstructed /\ GzDigestDiffers /\ ~maybe_gunzip(MfGzBytes, MfManifest.codec).ok

-----------------------------------------------------------------------------
(* Claims about the negotiated version (checked under SpecRef and SpecLs) *)

\* the versions of the proposal: N2NVersion.V14 alone
ProposedVersions == {V14}

\* C37: after a successful connect() (reference) or open() (lsview), the
\* negotiated version is one of the versions the client proposed; an accept
\* reply [1, v, data] naming a version that was not proposed is not treated as
\* a successful handshake.
C37_NegotiatedProposed ==
    (r_calls # <<>> /\ r_calls[1].result = "ok") =>
        /\ r_version # None
        /\ r_version \subseteq ProposedVersions

\* the same for the lsview connection
LsNegotiatedProposed ==
    (ls_calls # <<>> /\ ls_calls[1].result = "ok") =>
        /\ ls_negotiated_version # None
        /\ ls_negotiated_version \subseteq ProposedVersions

\* what the code does: the version of the accept reply is taken as it is
NegotiatedAsReplied ==
    (r_calls # <<>> /\ r_calls[1].result = "ok") =>
        /\ r_reply # <<>>
        /\ r_version = AcceptVersionOf(r_reply[1])
        /\ r_version # None

\* connect() has succeeded on an accept reply naming version 15
AcceptedUnproposed ==
    r_calls # <<>> /\ r_calls[1].result = "ok" /\ r_version = {V15}

-----------------------------------------------------------------------------
(* Connections are closed on every exit path (checked under SpecCli) *)

\* the connection of endpoint ep was closed
ClosedEp(ep) == \E i \in 1..Len(oc_closed) : oc_closed[i] = ep

\* C36: after cmd_tip, cmd_fetch_block, cmd_reconstruct_cip25 or
\* cmd_reconstruct_utxo has ended (normally, by SystemExit, or by an exception
\* of a protocol client or of the parser) the connection has been closed, and
\* every candidate connection that failed in open_connection has been closed
\* as well.
C36_ClosedOnExit ==
    /\ oc_pc = "end" =>
          /\ \A c \in oc_conn : ClosedEp(c)
          /\ \A i \in 1..Len(oc_tried) : ClosedEp(oc_tried[i].ep)
    /\ \A i \in 1..Len(oc_tried) : oc_tried[i].result # "ok" => ClosedEp(oc_tried[i].ep)
    /\ sc_pc = "end" => ~sc_open

\* reconstruct-utxo has ended by an exception of the parser, on the second
\* candidate
ClosedAfterRaise ==
    /\ oc_pc = "end"
    /\ oc_args.cmd = "reconstruct-utxo"
    /\ oc_conn # None
    /\ Len(oc_tried) = 2
    /\ oc_replies = <<"start_batch", "block", "batch_done">>
    /\ oc_exit = exit_of("ValueError")

-----------------------------------------------------------------------------
(* The retry loops (checked under SpecRetry) *)

\* the positions of the calls in the log, and the attempts made
RtCallAt(j) == rt_log[j].op = "call"
RtAttempts == Cardinality({j \in 1..Len(rt_log) : RtCallAt(j)})
RtFailures == Cardinality({j \in 1..Len(rt_log) : RtCallAt(j) /\ rt_log[j].kind = "exception"})
\* the number of the attempt (from 0) that precedes position j of the log
RtAttemptBefore(j) == Cardinality({k \in 1..(j - 1) : RtCallAt(k)}) - 1
RtRaisedKoiosError == \E x \in rt_result : x.type = "raise" /\ x.exc = "KoiosError"

RetrySafe ==
    rt_pc # "off" =>
        \* at most r calls
        /\ RtAttempts <= Max(rt_retries, 0)
        \* a call that returned is the last step, and its result is returned
        /\ \A j \in 1..Len(rt_log) :
              (RtCallAt(j) /\ rt_log[j].kind = "return")
                 => (j = Len(rt_log) /\ rt_pc = "end" /\ rt_result = {[type |-> "return", v |-> "rows"]})
        \* a wait follows a failed attempt i that is not the last, and lasts backoff * 2**i
        /\ \A j \in 1..Len(rt_log) :
              rt_log[j].op = "sleep"
                 => /\ j > 1
                    /\ RtCallAt(j - 1)
                    /\ rt_log[j - 1].kind = "exception"
                    /\ rt_log[j].units = TwoTo(RtAttemptBefore(j))
                    /\ RtAttemptBefore(j) < rt_retries - 1
        \* between two attempts there is exactly one wait
        /\ \A j \in 2..Len(rt_log) : RtCallAt(j) => rt_log[j - 1].op = "sleep"
        \* KoiosError exactly when all r attempts failed
        /\ rt_pc = "end" =>
              (RtRaisedKoiosError <=> RtFailures = Max(rt_retries, 0))

\* C38: with_retries(fn, retries=r) and koios_post call the request at most r
\* times, return the result of the first successful call without calling
\* again, wait backoff*2^i only between attempt i and attempt i+1 (never after
\* the last attempt), raise KoiosError exactly when all r attempts failed, and
\* always terminate.
C38_Retry == []RetrySafe /\ <>(rt_pc = "end")

\* the loop made three attempts, waited twice and returned the third result
RetriedThenReturned ==
    /\ rt_pc = "end"
    /\ rt_retries = 4
    /\ RtAttempts = 3
    /\ Len(rt_log) = 5
    /\ rt_log[4].units = 2
    /\ rt_result = {[type |-> "return", v |-> "rows"]}

\* all attempts failed
RetriesExhausted ==
    /\ rt_pc = "end"
    /\ rt_retries = 3
    /\ RtFailures = 3
    /\ RtRaisedKoiosError


-----------------------------------------------------------------------------
(* C34: rollback consistency *)

\* the page records cmd_reconstruct_cip25 collects from block n
PrPagesOf(n) ==
    LET body == cbor_dumps(PrBlocks[n])
        ok == {b \in ls_parse_block(body) : b.type # "error"}
    IN  IF ok = {} THEN <<>>
        ELSE ScLabelLoop(iter_label(CHOOSE b \in ok : TRUE, CIP25_LABEL), <<>>, None).pages

\* the manifest cmd_reconstruct_cip25 takes from block n
PrManifestOf(n) ==
    LET body == cbor_dumps(PrBlocks[n])
        ok == {b \in ls_parse_block(body) : b.type # "error"}
    IN  IF ok = {} THEN None
        ELSE ScLabelLoop(iter_label(CHOOSE b \in ok : TRUE, CIP25_LABEL), <<>>, None).manifest

\* the blocks of the chain the relay has announced and not rolled back
PrAnnounced == {pr_chain[k] : k \in 1..pr_ptr}

\* page record pg was collected from a block that is still announced
OnAnnouncedChain(pg) ==
    \E n \in PrAnnounced : \E j \in 1..Len(PrPagesOf(n)) : PrPagesOf(n)[j] = pg

\* C34: when the relay has answered with a roll-backward to a point P, the
\* reconstruction uses no page and no manifest collected from a block after
\* P: every page and the manifest it is made of come from blocks of the
\* chain the relay has announced and not rolled back.
C34_RollbackConsistent ==
    (sc_pc = "end" /\ sc_file # None)
        => /\ \A i \in 1..Len(sc_pages) : OnAnnouncedChain(sc_pages[i])
           /\ sc_manifest # None => \E n \in PrAnnounced : PrManifestOf(n) = sc_manifest

\* what the code does: without a roll-backward, the pages are those of the
\* announced blocks
NoRollbackConsistent ==
    (sc_pc = "end" /\ sc_file # None /\ pr_forks = 0)
        => \A i \in 1..Len(sc_pages) : OnAnnouncedChain(sc_pages[i])

\* a file was written from a page of a block that was rolled back
OrphanedPageWritten ==
    /\ sc_pc = "end"
    /\ sc_file # None
    /\ pr_forks > 0
    /\ \E i \in 1..Len(sc_pages) : ~OnAnnouncedChain(sc_pages[i])


-----------------------------------------------------------------------------
(* C35: one contribution per page asset name *)

RECURSIVE PickPages(_, _, _)
\* the records of pages at the positions in I, from position i on
PickPages(pages, I, i) ==
    IF i > Len(pages) THEN <<>>
    ELSE (IF i \in I THEN <<pages[i]>> ELSE <<>>) \o PickPages(pages, I, i + 1)

\* the ways to keep exactly one record of every asset name in pages
OncePerName(pages) ==
    {PickPages(pages, I, 1) : I \in
        {J \in SUBSET (1..Len(pages)) :
            /\ \A i \in 1..Len(pages) :
                  \E j \in J : pages[j].asset.asset_name = pages[i].asset.asset_name
            /\ \A i, j \in J :
                  i # j => pages[i].asset.asset_name # pages[j].asset.asset_name}}

\* C35: the bytes that are reconstructed hold the segments of every
\* distinct page asset name once: they are the concatenation of one record
\* per name, however often the scan has seen a record of that name.
C35_OncePerName ==
    (sc_pc = "end" /\ sc_file # None)
        => reconstruct_pages(sc_pages) \in {reconstruct_pages(q) : q \in OncePerName(sc_pages)}

\* what the code does: every record collected is concatenated
EveryRecordConcatenated ==
    (sc_pc = "end" /\ sc_file # None /\ sc_manifest = None)
        => sc_file = {reconstruct_loop(sort_pages(sc_pages))}

\* a file was written from two records of one asset name
SameNameTwiceWritten ==
    /\ sc_pc = "end"
    /\ sc_file # None
    /\ pr_forks = 0
    /\ \E i, j \in 1..Len(sc_pages) :
          i # j /\ sc_pages[i].asset.asset_name = sc_pages[j].asset.asset_name


-----------------------------------------------------------------------------
(* C33: one bearer, no demultiplexer *)

\* the client's request of protocol p is outstanding: the relay has the
\* agency of p, or replies of p are on their way to the client
PrOutstanding(p) ==
    \/ PrUnread(pr_wire, p) # {}
    \/ p = CHAIN_SYNC /\ pr_cs \in {"intersect", "canawait", "mustreply"}
    \/ p = BLOCK_FETCH /\ pr_bf.st \in {"busy", "streaming", "sent"}

\* the scan loop has ended and bf.done() was called: no exception has left
\* the loop
PrLoopEnded == \E i \in 1..Len(sc_sent) : sc_sent[i] = ls_send(BLOCK_FETCH, ls_client_done)

\* C33: against a relay that only replies to requests, the command never
\* has a ChainSync request and a BlockFetch request outstanding together;
\* every frame a recv reads, and every frame that waits to be read, is of
\* the protocol that recv expects, and no frame is left unread when the
\* scan has ended.
C33_SharedBearer ==
    /\ ~(PrOutstanding(CHAIN_SYNC) /\ PrOutstanding(BLOCK_FETCH))
    /\ sc_last.type # "other protocol"
    /\ sc_pc \in {"intersect", "stream", "fetch1", "fetch"}
          => \A i \in 1..Len(pr_wire) : pr_wire[i].p = PrExpected(sc_pc)
    /\ (sc_pc = "end" /\ PrLoopEnded) => pr_wire = <<>>

\* a second header is awaited after a batch was read to its end
SecondRequestAfterBatch ==
    /\ sc_pc = "stream"
    /\ sc_yielded >= 1
    /\ sc_last = [at |-> "fetch", type |-> "batch_done"]
    /\ PrUnread(pr_wire, CHAIN_SYNC) # {}


-----------------------------------------------------------------------------
(* C31: BlockFetch agency *)

\* what the relay notes when a BlockFetch message arrives while the client
\* does not have the agency
BfViolations ==
    {"blockfetch: request_range without agency", "blockfetch: client_done without agency",
     "blockfetch: request_range after client_done"}

\* positions in sent of the BlockFetch requests and of MsgClientDone
BfRequestsAt(sent) ==
    {i \in 1..Len(sent) : \E n \in DOMAIN PrBlocks : sent[i] = PrRangeFrame(n)}
BfDoneAt(sent) == {i \in 1..Len(sent) : sent[i] = ls_send(BLOCK_FETCH, ls_client_done)}

\* C31: every BlockFetch message of the client reaches the relay while
\* BlockFetch is Idle and no reply of an earlier request is unread; when
\* fetch_block_body has returned, its batch was read up to batch-done (or
\* no-blocks was read), and no request_range follows MsgClientDone.
C31_BlockFetchAgency ==
    /\ pr_viol \cap BfViolations = {}
    /\ sc_fetch.done => ~PrOutstanding(BLOCK_FETCH)
    /\ sc_fetch.done => sc_last.type \in {"batch_done", "no_blocks"}
                           \/ sc_last.at \notin {"fetch1", "fetch"}
    /\ \A i \in BfDoneAt(sc_sent) : \A j \in BfRequestsAt(sc_sent) : j < i

\* two ranges were requested and MsgClientDone was sent after them
TwoFetchesThenDone ==
    /\ Cardinality(BfRequestsAt(sc_sent)) >= 2
    /\ BfDoneAt(sc_sent) # {}
    /\ sc_result = "ok"

====
